---- MODULE Spec2Model ----
(***************************************************************************)
(* State-machine model of the solo-leveling gamification engine:           *)
(* PlayerManager (exp, levels, stat gauges, buffs), BuffEngine,            *)
(* AchievementEngine, ShopSystem, PenaltySystem, QuestEngine, ShadowArmy   *)
(* and HiddenQuestDetector.  Event handlers are awaited by the publisher   *)
(* (EventBus.emit gathers them), so one API call together with every       *)
(* handler it reaches is one atomic action.  The wall clock is an input:   *)
(* every call that reads datetime.now() may find that time has passed.     *)
(***************************************************************************)
EXTENDS Integers, Sequences, FiniteSets, TLC

(***************************************************************************)
(* Bounds of the model.                                                    *)
(***************************************************************************)
MaxOps == 3            \* calls made on the player / quest engines in one run
MaxArmyOps == 4        \* calls made on the shadow army in one run
MaxChecks == 4         \* detector calls in one run
MaxBusOps == 3         \* calls made on the event bus in one run
MaxPenaltyOps == 6     \* daily evaluations in one run of the penalty system
MaxTicks == 30         \* turns of the main loop in one run
MaxRecords == 6        \* activity records posted in one run of the streak
MaxReports == 20       \* execution reports on one soldier in one run

VARIABLES
    now,                  \* wall clock, minutes since midnight of day 0
    ops,                  \* number of calls made so far
    player,               \* Player: level, exp, title, stats, active_buffs, ...
    unlocked,             \* AchievementEngine._unlocked
    had_procrastination,  \* AchievementEngine._had_procrastination
    gold,                 \* ShopSystem._gold
    purchased_one_time,   \* ShopSystem._purchased_one_time
    consecutive_fails,    \* PenaltySystem._consecutive_fails
    last_check_date,      \* PenaltySystem._last_check_date (day number, -1 = "")
    in_penalty_zone,      \* PenaltySystem._in_penalty_zone
    quests,               \* Database quests table: id -> row
    emitted,              \* events published by the last call, in order
    last,                 \* the last call: operation, argument, result
    army,                 \* ShadowArmy._army, in extraction order
    extraction_history,   \* ShadowArmy._extraction_history: the rank of each extraction
    hq,                   \* HiddenQuestDetector fields
    fired,                \* log of the check_triggers calls: time, arguments, returned ids,
                          \* quests drawn for, day streak afterwards
    bus,                  \* EventBus: _handlers, _history
    delivered,            \* handler invocations made by the last EventBus.emit
    system,               \* SoloLevelingSystem: running, the main loop, stop()
    tasks,                \* coroutines of the quest engine suspended at a storage await
    snapshots,            \* Database snapshots table, oldest first
    pattern_detector,     \* PatternDetector: _last_pattern, _window_history
    exp_engine,           \* ExpEngine: _focus_streak, _last_streak_bonus, _total_passive_exp
    focus_streak,         \* AchievementEngine._focus_streak
    quests_returned       \* ids of the quests the last quest engine call returned

playerVars == <<player, unlocked, had_procrastination, gold, purchased_one_time,
                consecutive_fails, last_check_date, in_penalty_zone, quests>>
vars == <<now, ops, player, unlocked, had_procrastination, gold,
          purchased_one_time, consecutive_fails, last_check_date,
          in_penalty_zone, quests, emitted, last, army, extraction_history, hq, fired,
          bus, delivered, system, tasks, snapshots, pattern_detector, exp_engine, focus_streak,
          quests_returned>>
busVars == <<bus, delivered, system, tasks>>
activityVars == <<snapshots, pattern_detector, exp_engine, focus_streak, quests_returned>>

Min(a, b) == IF a < b THEN a ELSE b
Max(a, b) == IF a > b THEN a ELSE b

None == -1             \* a datetime or date that is None / ""
DayMinutes == 1440
DateOf(t) == t \div DayMinutes
HourOf(t) == (t % DayMinutes) \div 60

(***************************************************************************)
(* core/player.py                                                          *)
(***************************************************************************)
StatNames == <<"focus", "productivity", "consistency", "creativity", "wellness">>

LEVEL_TABLE == <<100, 200, 400, 700, 1100, 1600, 2200, 3000, 4000, 5500>>

exp_for_level(level) ==
    IF level \in DOMAIN LEVEL_TABLE THEN LEVEL_TABLE[level]
    ELSE 5500 + (level - 10) * 1000

\* TITLES, in dictionary order
TITLES == << [title |-> "awakened",        min_level |-> 1],
             [title |-> "hunter_E",        min_level |-> 3],
             [title |-> "hunter_D",        min_level |-> 5],
             [title |-> "hunter_C",        min_level |-> 8],
             [title |-> "hunter_B",        min_level |-> 12],
             [title |-> "hunter_A",        min_level |-> 18],
             [title |-> "hunter_S",        min_level |-> 25],
             [title |-> "hunter_national", min_level |-> 35],
             [title |-> "shadow_monarch",  min_level |-> 50] >>

RECURSIVE best_title(_, _, _)
best_title(level, i, best) ==
    IF i > Len(TITLES) THEN best
    ELSE best_title(level, i + 1,
                    IF level >= TITLES[i].min_level THEN TITLES[i].title ELSE best)

available_title(level) == best_title(level, 1, "awakened")

InSeq(x, s) == \E i \in DOMAIN s : s[i] = x

\* PlayerStats.apply_modifier: gauges are clamped to 0..100
apply_modifier_unclamped(stats, stat, value) ==
    IF stat \in DOMAIN stats
    THEN [stats EXCEPT ![stat] = stats[stat] + value]
    ELSE stats

apply_modifier(stats, stat, value) ==
    IF stat \in DOMAIN stats
    THEN [stats EXCEPT ![stat] = Max(0, Min(100, stats[stat] + value))]
    ELSE stats

(***************************************************************************)
(* system/buff_engine.py: the effect catalog.  effects lists the entries   *)
(* of the definition's effects dictionary in order, exp_multiplier in      *)
(* tenths; duration_minutes 0 stands for a definition without a duration.  *)
(***************************************************************************)
BUFF_DEFINITIONS ==
    [ focus_zone |->
        [effects |-> << <<"focus", 20>>, <<"exp_multiplier", 15>> >>,
         is_debuff |-> FALSE, duration_minutes |-> 0],
      creativity_spark |->
        [effects |-> << <<"creativity", 25>>, <<"exp_multiplier", 13>> >>,
         is_debuff |-> FALSE, duration_minutes |-> 0],
      learning_boost |->
        [effects |-> << <<"productivity", 15>>, <<"exp_multiplier", 12>> >>,
         is_debuff |-> FALSE, duration_minutes |-> 0],
      early_bird |->
        [effects |-> << <<"focus", 10>>, <<"productivity", 10>>, <<"wellness", 5>> >>,
         is_debuff |-> FALSE, duration_minutes |-> 0],
      distraction_fog |->
        [effects |-> << <<"focus", -15>>, <<"productivity", -10>> >>,
         is_debuff |-> TRUE, duration_minutes |-> 10],
      fatigue_warning |->
        [effects |-> << <<"focus", -10>>, <<"wellness", -5>> >>,
         is_debuff |-> TRUE, duration_minutes |-> 15],
      night_owl |->
        [effects |-> << <<"creativity", 10>>, <<"wellness", -10>> >>,
         is_debuff |-> FALSE, duration_minutes |-> 0],
      procrastination_curse |->
        [effects |-> << <<"productivity", -20>>, <<"focus", -10>> >>,
         is_debuff |-> TRUE, duration_minutes |-> 20] ]

BuffIds == DOMAIN BUFF_DEFINITIONS

(***************************************************************************)
(* system/achievement.py: exp_reward of every catalog entry.               *)
(***************************************************************************)
ACHIEVEMENTS ==
    [ first_quest |-> 20, quest_10 |-> 50, quest_50 |-> 150, quest_100 |-> 300,
      quest_500 |-> 800, s_rank_quest |-> 200, focus_30min |-> 30,
      focus_streak_10 |-> 100, focus_streak_20 |-> 250, avg_focus_80 |-> 150,
      zero_distraction_hour |-> 120, deep_work_8h |-> 300, level_5 |-> 80,
      level_10 |-> 200, level_25 |-> 500, level_50 |-> 1000, level_99 |-> 5000,
      night_owl |-> 15, early_bird |-> 25, comeback |-> 60, first_debuff |-> 10,
      all_daily |-> 50, weekend_grind |-> 80, passive_100 |-> 30,
      passive_500 |-> 100, passive_1000 |-> 250, first_shadow |-> 50,
      shadow_5 |-> 100, elite_shadow |-> 150, shadow_level_10 |-> 200,
      daily_streak_3 |-> 40, daily_streak_7 |-> 100, daily_streak_30 |-> 500,
      skill_first_activate |-> 30, all_passive_unlocked |-> 300 ]

\* thresholds tested by _on_level_up and _on_quest_completed, in code order
LEVEL_ACHIEVEMENTS == << <<5, "level_5">>, <<10, "level_10">>, <<25, "level_25">>,
                         <<50, "level_50">>, <<99, "level_99">> >>
QUEST_ACHIEVEMENTS == << <<1, "first_quest">>, <<10, "quest_10">>, <<50, "quest_50">>,
                         <<100, "quest_100">>, <<500, "quest_500">> >>

(***************************************************************************)
(* An event published on the bus.  Only the fields the handlers read are   *)
(* kept: id (buff, quest or achievement id, or the source of exp), n       *)
(* (amount, level or reward) and the reason of a quest failure.            *)
(***************************************************************************)
Event(type, id, n) == [type |-> type, id |-> id, n |-> n, reason |-> ""]

emit(c, ev) == [c EXCEPT !.emitted = Append(@, ev)]

(***************************************************************************)
(* PlayerManager.gain_exp computes int(amount * multiplier) in binary      *)
(* floating point.  The product of the multipliers is exact in tenths      *)
(* except that 1.5 * 1.2 evaluates to 1.7999999999999998, which makes the  *)
(* truncation one short of the exact value for the amounts FloatShort      *)
(* (evaluated for every amount the model passes to gain_exp).              *)
(***************************************************************************)
FloatShort == {15, 25, 30, 50, 60, 100, 120, 200, 250, 500, 800, 1000, 1100, 1500}

RECURSIVE exp_multipliers(_, _)
exp_multipliers(buffs, i) ==
    IF i > Len(buffs) THEN << >>
    ELSE LET effs == BUFF_DEFINITIONS[buffs[i].id].effects
             ms == SelectSeq(effs, LAMBDA e : e[1] = "exp_multiplier")
         IN  (IF Len(ms) > 0 THEN <<ms[1][2]>> ELSE << >>) \o exp_multipliers(buffs, i + 1)

RECURSIVE SeqProd(_)
SeqProd(s) == IF s = << >> THEN 1 ELSE Head(s) * SeqProd(Tail(s))

RECURSIVE Pow10(_)
Pow10(k) == IF k = 0 THEN 1 ELSE 10 * Pow10(k - 1)

actual_amount(amount, buffs) ==
    LET ms == exp_multipliers(buffs, 1)
        exact == (amount * SeqProd(ms)) \div Pow10(Len(ms))
    IN  IF {ms[i] : i \in DOMAIN ms} = {15, 12} /\ Len(ms) = 2 /\ amount \in FloatShort
        THEN exact - 1
        ELSE exact

(***************************************************************************)
(* A call context c carries the state a call and its handlers mutate:      *)
(* player, unlocked, had_procrastination, gold, emitted.                   *)
(***************************************************************************)
RECURSIVE gain_exp(_, _, _), level_loop(_), level_up(_), on_level_up(_, _, _),
          unlock(_, _)

\* AchievementEngine._unlock
unlock_again(c, achievement_id) ==
    IF achievement_id \notin DOMAIN ACHIEVEMENTS THEN c
    ELSE LET c1 == [c EXCEPT !.unlocked = @ \cup {achievement_id}]
             reward == ACHIEVEMENTS[achievement_id]
             c2 == IF reward > 0 THEN gain_exp(c1, reward, "achievement") ELSE c1
         IN  emit(c2, Event("notification_push", achievement_id, reward))

unlock(c, achievement_id) ==
    IF achievement_id \in c.unlocked THEN c
    ELSE IF achievement_id \notin DOMAIN ACHIEVEMENTS THEN c
    ELSE LET c1 == [c EXCEPT !.unlocked = @ \cup {achievement_id}]
             reward == ACHIEVEMENTS[achievement_id]
             c2 == IF reward > 0 THEN gain_exp(c1, reward, "achievement") ELSE c1
         IN  emit(c2, Event("notification_push", achievement_id, reward))

\* AchievementEngine._on_level_up, from the i-th threshold on
on_level_up(c, level, i) ==
    IF i > Len(LEVEL_ACHIEVEMENTS) THEN c
    ELSE on_level_up(IF level >= LEVEL_ACHIEVEMENTS[i][1]
                     THEN unlock(c, LEVEL_ACHIEVEMENTS[i][2]) ELSE c,
                     level, i + 1)

RECURSIVE raise_all_stats(_, _)
raise_all_stats(stats, i) ==
    IF i > Len(StatNames) THEN stats
    ELSE raise_all_stats(apply_modifier(stats, StatNames[i], 1), i + 1)

\* PlayerManager._level_up, with the LEVEL_UP handlers it awaits
level_up_unannounced(c) ==
    LET p == c.player
        new_level == p.level + 1
        new_title == available_title(new_level)
        title_changed == new_title # p.title
        grant == title_changed /\ ~InSeq(new_title, p.titles_unlocked)
        p1 == [p EXCEPT !.level = new_level,
                        !.titles_unlocked = IF grant THEN Append(@, new_title) ELSE @,
                        !.title = IF grant THEN new_title ELSE @,
                        !.stats = raise_all_stats(@, 1)]
    IN  on_level_up([c EXCEPT !.player = p1], new_level, 1)

level_up(c) ==
    LET p == c.player
        new_level == p.level + 1
        new_title == available_title(new_level)
        title_changed == new_title # p.title
        grant == title_changed /\ ~InSeq(new_title, p.titles_unlocked)
        p1 == [p EXCEPT !.level = new_level,
                        !.titles_unlocked = IF grant THEN Append(@, new_title) ELSE @,
                        !.title = IF grant THEN new_title ELSE @,
                        !.stats = raise_all_stats(@, 1)]
        c1 == emit([c EXCEPT !.player = p1], Event("level_up", p1.title, new_level))
    IN  on_level_up(c1, new_level, 1)

\* the while loop of gain_exp
level_loop_once(c) ==
    IF c.player.exp >= exp_for_level(c.player.level)
    THEN level_up([c EXCEPT !.player.exp = @ - exp_for_level(c.player.level)])
    ELSE c

level_loop(c) ==
    IF c.player.exp >= exp_for_level(c.player.level)
    THEN level_loop(level_up([c EXCEPT !.player.exp = @ - exp_for_level(c.player.level)]))
    ELSE c

\* ShopSystem._on_exp_gained
on_exp_gained(c, amount, source) ==
    IF source = "passive" /\ amount >= 3 THEN [c EXCEPT !.gold = @ + 1] ELSE c

\* PlayerManager.gain_exp
gain_exp_without_loop(c, amount, source) ==
    LET actual == actual_amount(amount, c.player.active_buffs)
        c1 == [c EXCEPT !.player.exp = @ + actual]
    IN  on_exp_gained(emit(c1, Event("exp_gained", source, actual)), actual, source)

gain_exp(c, amount, source) ==
    LET actual == actual_amount(amount, c.player.active_buffs)
        c1 == [c EXCEPT !.player.exp = @ + actual]
        c2 == on_exp_gained(emit(c1, Event("exp_gained", source, actual)), actual, source)
    IN  level_loop(c2)

\* the loop over buff.effects in apply_buff (sign 1) and remove_buff (sign -1)
RECURSIVE apply_effects(_, _, _, _)
apply_effects(stats, effects, sign, i) ==
    IF i > Len(effects) THEN stats
    ELSE apply_effects(IF effects[i][1] # "exp_multiplier"
                       THEN apply_modifier(stats, effects[i][1], sign * effects[i][2])
                       ELSE stats,
                       effects, sign, i + 1)

\* AchievementEngine._on_buff_activated / _on_debuff_activated
on_buff_activated(c, buff_id) ==
    IF buff_id = "focus_zone"
    THEN LET c1 == unlock(c, "focus_30min")
         IN  IF c1.had_procrastination
             THEN [unlock(c1, "comeback") EXCEPT !.had_procrastination = FALSE]
             ELSE c1
    ELSE c

on_debuff_activated(c) == unlock(c, "first_debuff")

\* PlayerManager.apply_buff, with the handlers of the event it publishes
apply_buff(c, buff) ==
    LET def == BUFF_DEFINITIONS[buff.id]
        kept == SelectSeq(c.player.active_buffs, LAMBDA b : b.id # buff.id)
        c1 == [c EXCEPT !.player.active_buffs = Append(kept, buff),
                        !.player.stats = apply_effects(@, def.effects, 1, 1)]
    IN  IF def.is_debuff
        THEN on_debuff_activated(emit(c1, Event("debuff_activated", buff.id, 0)))
        ELSE on_buff_activated(emit(c1, Event("buff_activated", buff.id, 0)), buff.id)

\* PlayerManager.remove_buff
remove_buff(c, buff_id) ==
    LET found == SelectSeq(c.player.active_buffs, LAMBDA b : b.id = buff_id)
        new_buffs == SelectSeq(c.player.active_buffs, LAMBDA b : b.id # buff_id)
        c1 == [c EXCEPT !.player.active_buffs = new_buffs]
    IN  IF Len(found) > 0
        THEN LET def == BUFF_DEFINITIONS[buff_id]
             IN  emit([c1 EXCEPT !.player.stats = apply_effects(@, def.effects, -1, 1)],
                      Event(IF def.is_debuff THEN "debuff_expired" ELSE "buff_expired",
                            buff_id, 0))
        ELSE c1

IsActive(p, buff_id) == \E i \in DOMAIN p.active_buffs : p.active_buffs[i].id = buff_id

\* BuffEngine.activate_buff (every caller leaves duration_minutes at None)
activate_buff_again(c, buff_id, t) ==
    IF buff_id \notin BuffIds THEN c
    ELSE LET def == BUFF_DEFINITIONS[buff_id]
             expires == IF def.duration_minutes > 0 THEN t + def.duration_minutes ELSE None
         IN  apply_buff(c, [id |-> buff_id, expires_at |-> expires])

activate_buff(c, buff_id, t) ==
    IF buff_id \notin BuffIds THEN c
    ELSE IF IsActive(c.player, buff_id) THEN c
    ELSE LET def == BUFF_DEFINITIONS[buff_id]
             expires == IF def.duration_minutes > 0 THEN t + def.duration_minutes ELSE None
         IN  apply_buff(c, [id |-> buff_id, expires_at |-> expires])

\* BuffEngine.deactivate_buff
deactivate_buff(c, buff_id) == remove_buff(c, buff_id)

\* BuffEngine.check_expired: the expired list is computed first, then each
\* of its members is deactivated
RECURSIVE deactivate_all(_, _, _)
deactivate_all(c, expired, i) ==
    IF i > Len(expired) THEN c
    ELSE deactivate_all(deactivate_buff(c, expired[i].id), expired, i + 1)

IsExpired_strictly(b, t) == b.expires_at # None /\ b.expires_at < t

IsExpired(b, t) == b.expires_at # None /\ b.expires_at <= t

check_expired(c, t) ==
    deactivate_all(c, SelectSeq(c.player.active_buffs, LAMBDA b : IsExpired(b, t)), 1)

(***************************************************************************)
(* system/penalty.py                                                       *)
(***************************************************************************)
PENALTY_LEVELS ==
    << [level |-> 1, exp_penalty |-> 0, stat_penalty |-> << >>, forced_quest |-> FALSE],
       [level |-> 2, exp_penalty |-> 0, stat_penalty |-> << >>, forced_quest |-> TRUE],
       [level |-> 3, exp_penalty |-> 50,
        stat_penalty |-> << <<"focus", -10>>, <<"productivity", -10>>, <<"wellness", -5>> >>,
        forced_quest |-> TRUE],
       [level |-> 5, exp_penalty |-> 200,
        stat_penalty |-> << <<"focus", -20>>, <<"productivity", -20>>,
                            <<"consistency", -15>>, <<"wellness", -10>> >>,
        forced_quest |-> TRUE] >>

\* the loop over sorted(PENALTY_LEVELS, reverse=True): 0 when no rung applies
penalty_rung_ascending(fails, i) ==
    IF fails >= PENALTY_LEVELS[1].level THEN 1 ELSE 0

RECURSIVE penalty_rung(_, _)
penalty_rung(fails, i) ==
    IF i = 0 THEN 0
    ELSE IF fails >= PENALTY_LEVELS[i].level THEN i
    ELSE penalty_rung(fails, i - 1)

\* the exp and stat penalties of check_daily_completion
apply_penalty(p, penalty) ==
    LET p1 == IF penalty.exp_penalty > 0
              THEN [p EXCEPT !.exp = Max(0, p.exp - penalty.exp_penalty)]
              ELSE p
    IN  [p1 EXCEPT !.stats = apply_effects(@, penalty.stat_penalty, 1, 1)]

(***************************************************************************)
(* system/shop.py and the buy_item endpoint of api/server.py.  kind is the *)
(* key buy_item finds in the item's effect: "stat", "stats", "exp" or      *)
(* none of them.                                                           *)
(***************************************************************************)
SHOP_ITEMS ==
    [ potion_focus |-> [price |-> 50, level_req |-> 1, one_time |-> FALSE,
                        kind |-> "stat", stats |-> << <<"focus", 15>> >>, exp |-> 0],
      potion_energy |-> [price |-> 60, level_req |-> 1, one_time |-> FALSE,
                         kind |-> "stats",
                         stats |-> << <<"wellness", 10>>, <<"productivity", 10>> >>,
                         exp |-> 0],
      potion_exp |-> [price |-> 100, level_req |-> 2, one_time |-> FALSE,
                      kind |-> "exp", stats |-> << >>, exp |-> 50],
      scroll_double_exp |-> [price |-> 200, level_req |-> 3, one_time |-> FALSE,
                             kind |-> "other", stats |-> << >>, exp |-> 0],
      elixir_stat_reset |-> [price |-> 500, level_req |-> 5, one_time |-> FALSE,
                             kind |-> "other", stats |-> << >>, exp |-> 0],
      blessed_random_box |-> [price |-> 150, level_req |-> 2, one_time |-> FALSE,
                              kind |-> "other", stats |-> << >>, exp |-> 0],
      cursed_random_box |-> [price |-> 80, level_req |-> 1, one_time |-> FALSE,
                             kind |-> "other", stats |-> << >>, exp |-> 0],
      ring_focus |-> [price |-> 300, level_req |-> 3, one_time |-> TRUE,
                      kind |-> "other", stats |-> << >>, exp |-> 0],
      pendant_wisdom |-> [price |-> 300, level_req |-> 3, one_time |-> TRUE,
                          kind |-> "other", stats |-> << >>, exp |-> 0] ]

\* ShopSystem.purchase: the reason it declines, or "ok"
purchase_result(item_id, player_level, g, bought) ==
    IF item_id \notin DOMAIN SHOP_ITEMS THEN "no_such_item"
    ELSE IF player_level < SHOP_ITEMS[item_id].level_req THEN "level"
    ELSE IF SHOP_ITEMS[item_id].one_time /\ item_id \in bought THEN "already_bought"
    ELSE IF g < SHOP_ITEMS[item_id].price THEN "gold"
    ELSE "ok"

\* the effect buy_item applies after a successful purchase
apply_item(c, item) ==
    IF item.kind = "stat" \/ item.kind = "stats"
    THEN [c EXCEPT !.player.stats = apply_effects(@, item.stats, 1, 1)]
    ELSE IF item.kind = "exp" THEN gain_exp(c, item.exp, "shop")
    ELSE c

\* ShopSystem._on_quest_completed
shop_on_quest_completed(c, exp_earned) ==
    [c EXCEPT !.gold = @ + Max(5, exp_earned \div 2)]

(***************************************************************************)
(* system/quest_engine.py                                                  *)
(***************************************************************************)
\* AchievementEngine._on_quest_completed, from the i-th threshold on; total
\* is read once when the handler starts
RECURSIVE quest_count_unlocks(_, _, _)
quest_count_unlocks(c, total, i) ==
    IF i > Len(QUEST_ACHIEVEMENTS) THEN c
    ELSE quest_count_unlocks(IF total >= QUEST_ACHIEVEMENTS[i][1]
                             THEN unlock(c, QUEST_ACHIEVEMENTS[i][2]) ELSE c,
                             total, i + 1)

\* difficulty is event.data.get("difficulty")
on_quest_completed(c, difficulty) ==
    LET c1 == quest_count_unlocks(c, c.player.total_quests_completed, 1)
    IN  IF difficulty = "S" THEN unlock(c1, "s_rank_quest") ELSE c1

\* complete_quest publishes quest_id, quest_title and exp_earned only
NoDifficulty == "none"

\* the part of complete_quest after the quest has been saved as completed
reward_quest(c, quest_id, exp_reward) ==
    LET c1 == gain_exp(c, exp_reward, "quest")
        c2 == [c1 EXCEPT !.player.total_quests_completed = @ + 1]
        c3 == emit(c2, Event("quest_completed", quest_id, exp_reward))
    IN  shop_on_quest_completed(on_quest_completed(c3, NoDifficulty), exp_reward)

(***************************************************************************)
(* system/shadow_army.py.  A soldier's id is its position in army (the     *)
(* dictionary keeps extraction order and never drops an entry).  loyalty   *)
(* is kept exactly, in hundredths: 1.0 is 100, the step 0.05 is 5.         *)
(***************************************************************************)
Ranks == <<"normal", "elite", "knight", "commander", "monarch">>

RANK_ARMY_LIMITS ==
    [normal |-> 99, elite |-> 20, knight |-> 5, commander |-> 2, monarch |-> 1]

RANK_REQUIRED_LEVELS ==
    [normal |-> 5, elite |-> 15, knight |-> 25, commander |-> 40, monarch |-> 60]

LoyaltyFull == 100
LoyaltyStep == 5
LoyaltyFloor == 10
LoyaltyCollapse == 20

ShadowSoldier(rank) ==
    [rank |-> rank, status |-> "dormant", level |-> 1, exp |-> 0, exp_to_next |-> 100,
     total_executions |-> 0, successful_executions |-> 0, failed_executions |-> 0,
     loyalty |-> LoyaltyFull]

\* the capacity count of extract_shadow
current_count(a, rank) ==
    Cardinality({i \in DOMAIN a : a[i].rank = rank /\ a[i].status # "destroyed"})

\* extract_shadow: the reason it declines, or "ok"
extract_result_above_cap(a, rank, player_level) ==
    IF player_level < RANK_REQUIRED_LEVELS[rank] THEN "level"
    ELSE IF current_count(a, rank) > RANK_ARMY_LIMITS[rank] THEN "capacity"
    ELSE "ok"

extract_result(a, rank, player_level) ==
    IF player_level < RANK_REQUIRED_LEVELS[rank] THEN "level"
    ELSE IF current_count(a, rank) >= RANK_ARMY_LIMITS[rank] THEN "capacity"
    ELSE "ok"

extract_shadow_at_any_level(a, rank, player_level) ==
    IF current_count(a, rank) < RANK_ARMY_LIMITS[rank]
    THEN Append(a, ShadowSoldier(rank))
    ELSE a

extract_shadow(a, rank, player_level) ==
    IF extract_result(a, rank, player_level) = "ok"
    THEN Append(a, ShadowSoldier(rank))
    ELSE a

\* the entry extract_shadow appends to _extraction_history
record_extraction(history, a, rank, player_level) ==
    IF extract_result(a, rank, player_level) = "ok"
    THEN Append(history, rank)
    ELSE history

\* deploy_shadow: the reason it declines, or "ok"
deploy_result(a, shadow_id) ==
    IF shadow_id \notin DOMAIN a THEN "absent"
    ELSE IF a[shadow_id].status = "destroyed" THEN "destroyed"
    ELSE IF a[shadow_id].status = "active" THEN "active"
    ELSE "ok"

deploy_shadow(a, shadow_id) ==
    IF deploy_result(a, shadow_id) = "ok"
    THEN [a EXCEPT ![shadow_id].status = "active"]
    ELSE a

recall_shadow(a, shadow_id) ==
    IF shadow_id \notin DOMAIN a THEN a
    ELSE [a EXCEPT ![shadow_id].status = "dormant"]

destroy_shadow(a, shadow_id) ==
    IF shadow_id \notin DOMAIN a THEN a
    ELSE [a EXCEPT ![shadow_id].status = "destroyed"]

\* execute_shadow: the reason it declines, or "ok"
execute_result(a, shadow_id) ==
    IF shadow_id \notin DOMAIN a THEN "absent"
    ELSE IF a[shadow_id].status # "active" THEN "not_deployed"
    ELSE "ok"

execute_shadow(a, shadow_id) ==
    IF execute_result(a, shadow_id) = "ok"
    THEN [a EXCEPT ![shadow_id].total_executions = @ + 1]
    ELSE a

\* the success branch of report_execution_result
report_success_keeping_exp(s) ==
    LET s1 == [s EXCEPT !.successful_executions = @ + 1,
                        !.exp = @ + 10 + s.level * 2]
    IN  IF s1.exp >= s1.exp_to_next
        THEN [s1 EXCEPT !.level = @ + 1,
                        !.exp_to_next = (@ * 3) \div 2]
        ELSE s1

report_success(s) ==
    LET s1 == [s EXCEPT !.successful_executions = @ + 1,
                        !.exp = @ + 10 + s.level * 2]
    IN  IF s1.exp >= s1.exp_to_next
        THEN [s1 EXCEPT !.level = @ + 1,
                        !.exp = @ - s1.exp_to_next,
                        !.exp_to_next = (@ * 3) \div 2]
        ELSE s1

\* the failure branch of report_execution_result
report_failure_below(s) ==
    LET s1 == [s EXCEPT !.failed_executions = @ + 1,
                        !.loyalty = Max(LoyaltyFloor, @ - LoyaltyStep)]
    IN  IF s1.loyalty < LoyaltyCollapse
        THEN [s1 EXCEPT !.status = "destroyed"]
        ELSE s1

report_failure(s) ==
    LET s1 == [s EXCEPT !.failed_executions = @ + 1,
                        !.loyalty = Max(LoyaltyFloor, @ - LoyaltyStep)]
    IN  IF s1.loyalty <= LoyaltyCollapse
        THEN [s1 EXCEPT !.status = "destroyed"]
        ELSE s1

report_execution_result(a, shadow_id, success) ==
    IF shadow_id \notin DOMAIN a THEN a
    ELSE [a EXCEPT ![shadow_id] = IF success THEN report_success(@)
                                  ELSE report_failure(@)]

(***************************************************************************)
(* system/hidden_quests.py.  HIDDEN_QUESTS in dictionary order; focus      *)
(* scores are in hundredths, cooldown_hours 0 stands for a quest without   *)
(* a cooldown.                                                             *)
(***************************************************************************)
HQ(id, repeatable, cooldown_hours, trigger) ==
    [id |-> id, repeatable |-> repeatable, cooldown_hours |-> cooldown_hours,
     trigger |-> trigger]

HIDDEN_QUESTS == <<
    HQ("night_owl", FALSE, 0,
       [type |-> "time_activity", condition |-> "productive_after_2am"]),
    HQ("early_bird", FALSE, 0,
       [type |-> "time_activity", condition |-> "productive_before_6am"]),
    HQ("marathon_coder", TRUE, 48,
       [type |-> "continuous_activity", category |-> "coding", duration_minutes |-> 240]),
    HQ("focus_master", TRUE, 24,
       [type |-> "sustained_focus", min_focus |-> 80, duration_minutes |-> 120]),
    HQ("comeback_king", TRUE, 72,
       [type |-> "pattern_transition", from_pattern |-> "distraction_drift",
        to_pattern |-> "deep_focus"]),
    HQ("zero_distraction", TRUE, 168,
       [type |-> "daily_absence", forbidden_categories |-> {"social", "media", "gaming"}]),
    HQ("first_blood", FALSE, 0,
       [type |-> "milestone", counter |-> "total_quests_completed", value |-> 1]),
    HQ("centurion", FALSE, 0,
       [type |-> "milestone", counter |-> "total_quests_completed", value |-> 100]),
    HQ("level_10", FALSE, 0,
       [type |-> "milestone", counter |-> "player_level", value |-> 10]),
    HQ("shadow_sovereign", FALSE, 0,
       [type |-> "milestone", counter |-> "shadow_army_size", value |-> 10]),
    HQ("weekend_warrior", TRUE, 168,
       [type |-> "time_condition", day_of_week |-> {5, 6}]),
    HQ("midnight_countdown", TRUE, 48,
       [type |-> "time_activity", condition |-> "work_across_midnight"]),
    HQ("new_year_grinder", TRUE, 8760,
       [type |-> "date", month |-> 1, day |-> 1]),
    HQ("polyglot", TRUE, 72,
       [type |-> "variety", min_distinct_tools |-> 3]),
    HQ("device_hopper", TRUE, 168,
       [type |-> "device", min_devices |-> 3]),
    HQ("perfect_day", TRUE, 168,
       [type |-> "composite", min_sides |-> 2, min_focus |-> 70]),
    HQ("break_the_chain", FALSE, 0,
       [type |-> "streak", streak_days |-> 3]),
    HQ("seven_day_warrior", FALSE, 0,
       [type |-> "streak", streak_days |-> 7]),
    HQ("system_gift", TRUE, 48,
       [type |-> "random", check_interval_minutes |-> 30]),
    HQ("secret_double_exp", TRUE, 72,
       [type |-> "random", check_interval_minutes |-> 60]) >>

\* the calendar of the run: day 0 is Friday, 30 December
StartWeekday == 4
NewYearDate == 2
WeekdayOf(t) == (DateOf(t) + StartWeekday) % 7
MinuteOf(t) == t % 60

ProductiveWithDesign == {"coding", "writing", "work", "learning", "research", "design"}
Productive == {"coding", "writing", "work", "learning", "research"}

\* HiddenQuestDetector.__init__ at time t
HiddenQuestDetector(t) ==
    [ triggered |-> {}, cooldowns |-> [x \in {} |-> 0], last_random_check |-> t,
      continuous_category |-> "", continuous_start |-> None,
      focus_above_start |-> None, last_pattern |-> "", last_pattern_start |-> None,
      daily_categories |-> {}, daily_devices |-> {}, streak_days |-> 0,
      last_streak_date |-> None ]

check_time_activity(trigger, t, category) ==
    LET productive == category \in ProductiveWithDesign
    IN  IF trigger.condition = "productive_after_2am"
        THEN HourOf(t) >= 2 /\ HourOf(t) < 5 /\ productive
        ELSE IF trigger.condition = "productive_before_6am"
        THEN HourOf(t) < 6 /\ productive
        ELSE IF trigger.condition = "work_across_midnight"
        THEN HourOf(t) = 0 /\ MinuteOf(t) < 30 /\ productive
        ELSE FALSE

check_continuous(h, trigger, category, t) ==
    /\ category = trigger.category
    /\ h.continuous_category = trigger.category
    /\ h.continuous_start # None
    /\ t - h.continuous_start >= trigger.duration_minutes

check_sustained_focus(h, trigger, focus, t) ==
    /\ focus >= trigger.min_focus
    /\ h.focus_above_start # None
    /\ t - h.focus_above_start >= trigger.duration_minutes

check_pattern_transition(h, trigger, current_pattern) ==
    /\ current_pattern = trigger.to_pattern
    /\ h.last_pattern = trigger.from_pattern
    /\ h.last_pattern_start # None

check_daily_absence(h, trigger) ==
    /\ h.daily_categories \cap trigger.forbidden_categories = {}
    /\ h.daily_categories # {}

check_milestone(trigger, in) ==
    IF trigger.counter = "total_quests_completed" THEN in.quests_completed >= trigger.value
    ELSE IF trigger.counter = "player_level" THEN in.player_level >= trigger.value
    ELSE IF trigger.counter = "shadow_army_size" THEN in.shadow_army_size >= trigger.value
    ELSE FALSE

check_time_condition(trigger, t, category) ==
    WeekdayOf(t) \in trigger.day_of_week /\ category \in Productive

\* the model's calendar has one 1 January, on day NewYearDate
check_date(trigger, t, category) ==
    /\ trigger.month = 1 /\ trigger.day = 1
    /\ DateOf(t) = NewYearDate
    /\ category \in Productive

check_variety(h, trigger) == Cardinality(h.daily_categories) >= trigger.min_distinct_tools

check_device(trigger, active_devices) == active_devices >= trigger.min_devices

check_composite(trigger, in) ==
    /\ in.daily_all_done
    /\ in.side_quests_done >= trigger.min_sides
    /\ in.focus_score >= trigger.min_focus

\* _check_streak updates the day counter before it answers
streak_update_at_every_check(h, daily_done, t) ==
    IF daily_done
    THEN [h EXCEPT !.streak_days = @ + 1, !.last_streak_date = DateOf(t)]
    ELSE h

streak_update(h, daily_done, t) ==
    IF daily_done /\ DateOf(t) # h.last_streak_date
    THEN [h EXCEPT !.streak_days = @ + 1, !.last_streak_date = DateOf(t)]
    ELSE h

check_streak(h, trigger) == h.streak_days >= trigger.streak_days

\* _check_random draws only when the interval has elapsed since the last draw
random_due_at_every_check(h, trigger, t) == TRUE

random_due(h, trigger, t) == t - h.last_random_check >= trigger.check_interval_minutes

\* _update_tracking
update_tracking(h, category, focus, pattern, device_id, t) ==
    LET h1 == IF category # "" /\ category = h.continuous_category THEN h
              ELSE [h EXCEPT !.continuous_category = category, !.continuous_start = t]
        h2 == IF focus >= 80
              THEN (IF h1.focus_above_start = None
                    THEN [h1 EXCEPT !.focus_above_start = t] ELSE h1)
              ELSE [h1 EXCEPT !.focus_above_start = None]
        h3 == IF pattern # "" /\ pattern # h2.last_pattern
              THEN [h2 EXCEPT !.last_pattern = pattern, !.last_pattern_start = t]
              ELSE h2
        h4 == IF category # "" THEN [h3 EXCEPT !.daily_categories = @ \cup {category}] ELSE h3
    IN  IF device_id # "" THEN [h4 EXCEPT !.daily_devices = @ \cup {device_id}] ELSE h4

\* the two skips at the head of the loop body of check_triggers
skipped_by_cooldown_only(h, quest, t) ==
    quest.id \in DOMAIN h.cooldowns /\ t < h.cooldowns[quest.id]

skipped(h, quest, t) ==
    \/ quest.id \in h.triggered /\ ~quest.repeatable
    \/ quest.id \in DOMAIN h.cooldowns /\ t < h.cooldowns[quest.id]

\* the state a condition check leaves behind
after_check(h, quest, args, t) ==
    IF quest.trigger.type = "streak" THEN streak_update(h, args.daily_all_done, t)
    ELSE IF quest.trigger.type = "random" /\ random_due(h, quest.trigger, t)
    THEN [h EXCEPT !.last_random_check = t]
    ELSE h

\* the match statement of check_triggers; draw is random.random() < probability
should_trigger(h, quest, args, t, draw) ==
    LET trigger == quest.trigger
        type == trigger.type
    IN  IF type = "time_activity" THEN check_time_activity(trigger, t, args.current_category)
        ELSE IF type = "continuous_activity"
        THEN check_continuous(h, trigger, args.current_category, t)
        ELSE IF type = "sustained_focus" THEN check_sustained_focus(h, trigger, args.focus_score, t)
        ELSE IF type = "pattern_transition"
        THEN check_pattern_transition(h, trigger, args.pattern_type)
        ELSE IF type = "daily_absence" THEN check_daily_absence(h, trigger)
        ELSE IF type = "milestone" THEN check_milestone(trigger, args)
        ELSE IF type = "time_condition"
        THEN check_time_condition(trigger, t, args.current_category)
        ELSE IF type = "date" THEN check_date(trigger, t, args.current_category)
        ELSE IF type = "variety" THEN check_variety(h, trigger)
        ELSE IF type = "device" THEN check_device(trigger, args.active_devices_today)
        ELSE IF type = "composite" THEN check_composite(trigger, args)
        ELSE IF type = "streak"
        THEN check_streak(streak_update(h, args.daily_all_done, t), trigger)
        ELSE IF type = "random" THEN random_due(h, trigger, t) /\ draw
        ELSE FALSE

\* a firing marks the quest and starts its cooldown
mark_triggered_without_cooldown(h, quest, t) ==
    [h EXCEPT !.triggered = @ \cup {quest.id}]

mark_triggered(h, quest, t) ==
    LET h1 == [h EXCEPT !.triggered = @ \cup {quest.id}]
    IN  IF quest.cooldown_hours > 0
        THEN [h1 EXCEPT !.cooldowns =
                 [x \in DOMAIN h.cooldowns \cup {quest.id} |->
                     IF x = quest.id THEN t + 60 * quest.cooldown_hours
                     ELSE h.cooldowns[x]]]
        ELSE h1

RECURSIVE scan_quests(_, _, _, _, _, _)
scan_quests(h, triggered, i, args, t, draw) ==
    IF i > Len(HIDDEN_QUESTS) THEN [h |-> h, triggered |-> triggered]
    ELSE LET quest == HIDDEN_QUESTS[i]
         IN  IF skipped(h, quest, t)
             THEN scan_quests(h, triggered, i + 1, args, t, draw)
             ELSE LET h1 == after_check(h, quest, args, t)
                  IN  IF should_trigger(h, quest, args, t, draw)
                      THEN scan_quests(mark_triggered(h1, quest, t),
                                       Append(triggered, quest.id), i + 1, args, t, draw)
                      ELSE scan_quests(h1, triggered, i + 1, args, t, draw)

\* the quests for which the scan calls random.random()
RECURSIVE drawn_in_scan(_, _, _, _, _)
drawn_in_scan(h, i, args, t, draw) ==
    IF i > Len(HIDDEN_QUESTS) THEN {}
    ELSE LET quest == HIDDEN_QUESTS[i]
             h1 == after_check(h, quest, args, t)
         IN  IF skipped(h, quest, t)
             THEN drawn_in_scan(h, i + 1, args, t, draw)
             ELSE (IF quest.trigger.type = "random" /\ random_due(h, quest.trigger, t)
                   THEN {quest.id} ELSE {})
                  \cup drawn_in_scan(IF should_trigger(h, quest, args, t, draw)
                                     THEN mark_triggered(h1, quest, t) ELSE h1,
                                     i + 1, args, t, draw)

check_triggers(h, args, t, draw) ==
    LET r == scan_quests(h, << >>, 1, args, t, draw)
    IN  [h |-> update_tracking(r.h, args.current_category, args.focus_score,
                               args.pattern_type, args.device_id, t),
         triggered |-> r.triggered]

reset_daily(h) == [h EXCEPT !.daily_categories = {}, !.daily_devices = {}]


(***************************************************************************)
(* core/events.py: the bus itself.  A handler is named by an identifier;   *)
(* an Event object is named by seq, its number among the events ever       *)
(* passed to emit (published counts them).                                 *)
(***************************************************************************)
max_history == 1000

BusEventTypes == {"quest_completed", "level_up"}
HandlerIds == {"h1", "h2"}

\* EventBus.__init__
EventBus == [handlers |-> [type \in BusEventTypes |-> << >>], history |-> << >>,
             published |-> 0]

BusEvent(type, seq) == [type |-> type, seq |-> seq]

\* EventBus.on
EventBus_on(b, event_type, handler) ==
    [b EXCEPT !.handlers[event_type] = Append(@, handler)]

\* list.remove: the first occurrence goes
RECURSIVE remove_first(_, _)
remove_first(list, x) ==
    IF list = << >> THEN << >>
    ELSE IF Head(list) = x THEN Tail(list)
    ELSE <<Head(list)>> \o remove_first(Tail(list), x)

\* EventBus.off
EventBus_off(b, event_type, handler) ==
    IF InSeq(handler, b.handlers[event_type])
    THEN [b EXCEPT !.handlers[event_type] = remove_first(@, handler)]
    ELSE b

\* the history update at the head of EventBus.emit
record_event_unbounded(history, event) == Append(history, event)

record_event(history, event) ==
    LET h == Append(history, event)
    IN  IF Len(h) > max_history
        THEN SubSeq(h, Len(h) - max_history + 1, Len(h))
        ELSE h

\* asyncio.gather(..., return_exceptions=True) over the handlers of the
\* event's type: every handler is called with the event and awaited; raises
\* are the handlers that end with an exception, which gather returns as a
\* result.  propagated tells whether emit itself ends with an exception.
gather_stopping_at_first_raise(handlers, event, raises) ==
    LET failing == {i \in DOMAIN handlers : handlers[i] \in raises}
        stop == IF failing = {} THEN Len(handlers)
                ELSE CHOOSE i \in failing : \A j \in failing : i <= j
    IN  [calls |-> [i \in 1..stop |->
                      [handler |-> handlers[i], event |-> event,
                       raised |-> handlers[i] \in raises]],
         propagated |-> failing # {}]

gather(handlers, event, raises) ==
    [calls |-> [i \in DOMAIN handlers |->
                  [handler |-> handlers[i], event |-> event,
                   raised |-> handlers[i] \in raises]],
     propagated |-> FALSE]

\* EventBus.emit
EventBus_emit(b, event_type, raises) ==
    LET event == BusEvent(event_type, b.published + 1)
    IN  [bus |-> [b EXCEPT !.history = record_event(@, event),
                           !.published = @ + 1],
         result |-> gather(b.handlers[event_type], event, raises)]

(***************************************************************************)
(* Initial state.  SoloLevelingSystem.start loads level, exp, title, stats *)
(* and total_quests_completed from the player row and the quests from the  *)
(* quests table; active buffs, achievements, gold and the penalty state    *)
(* are not persisted and start empty.                                      *)
(***************************************************************************)
InitGauges == {5, 50, 95}
SavedProgress == { [level |-> 1, exp |-> 0, total_quests_completed |-> 0],
                   [level |-> 4, exp |-> 650, total_quests_completed |-> 9] }

RECURSIVE titles_up_to(_, _)
titles_up_to(level, i) ==
    IF i > Len(TITLES) THEN << >>
    ELSE (IF level >= TITLES[i].min_level THEN <<TITLES[i].title>> ELSE << >>)
         \o titles_up_to(level, i + 1)

SavedPlayer(progress, g) ==
    [ level |-> progress.level,
      exp |-> progress.exp,
      title |-> available_title(progress.level),
      titles_unlocked |-> titles_up_to(progress.level, 1),
      stats |-> [focus |-> g, productivity |-> g, consistency |-> g,
                 creativity |-> g, wellness |-> g],
      active_buffs |-> << >>,
      total_quests_completed |-> progress.total_quests_completed ]

Quest(type, title, difficulty, exp_reward, deadline) ==
    [type |-> type, title |-> title, difficulty |-> difficulty, status |-> "active",
     exp_reward |-> exp_reward, deadline |-> deadline]

SavedQuests ==
    [ q_daily |-> Quest("daily", "focus_hour", "C", 30, DayMinutes - 1),
      q_side  |-> Quest("side", "refactor", "A", 120, None),
      q_main  |-> Quest("main", "ship_release", "S", 300, 2 * DayMinutes) ]

QuestIds == DOMAIN SavedQuests \cup {"q_absent"}

\* the rows in the order of get_active_quests (created_at descending)
QuestScanOrder == <<"q_main", "q_side", "q_daily">>

NoCall == [op |-> "init", arg |-> "", n |-> 0, ok |-> FALSE, error |-> "",
           roundtrip |-> FALSE,
           pre |-> [level |-> 0, exp |-> 0, mult |-> << >>,
                    stats |-> [focus |-> 0, productivity |-> 0, consistency |-> 0,
                               creativity |-> 0, wellness |-> 0]]]

\* the callers of the quest engine that share the event loop: the HTTP
\* endpoint and the WebSocket (complete_quest), a fail_quest caller and the
\* main loop (check_expired_quests); none has started
TaskNames == {"http", "ws", "fail", "tick"}
NoRow == Quest("", "", "", 0, None)
NoTasks ==
    [ pc |-> [t \in TaskNames |-> "idle"],
      quest_id |-> [t \in TaskNames |-> ""],
      row |-> [t \in TaskNames |-> NoRow],      \* the Quest object get_quest returned
      late |-> << >>,                            \* the list get_active_quests returned
      returned |-> [t \in TaskNames |-> FALSE],
      saved |-> << >> ]                          \* the save_quest calls, in order

\* SoloLevelingSystem.__init__: not running; loop and stop tell where the
\* main loop and a stop() call are suspended
SoloLevelingSystem ==
    [running |-> FALSE, tick_count |-> 0, loop |-> "idle", stop |-> "idle",
     db_open |-> FALSE]

\* the engines that are not persisted, as constructed
EnginesInit ==
    /\ now = 9 * 60
    /\ ops = 0
    /\ unlocked = {}
    /\ had_procrastination = FALSE
    /\ gold = 0
    /\ purchased_one_time = {}
    /\ consecutive_fails = 0
    /\ last_check_date = None
    /\ in_penalty_zone = FALSE
    /\ emitted = << >>
    /\ last = NoCall
    /\ fired = << >>
    /\ delivered = << >>
    /\ system = SoloLevelingSystem
    /\ tasks = NoTasks
    /\ snapshots = << >>
    /\ pattern_detector = [last_pattern |-> "normal", window_history |-> << >>]
    /\ exp_engine = [focus_streak |-> 0, last_streak_bonus |-> 0, total_passive_exp |-> 0]
    /\ focus_streak = 0
    /\ quests_returned = {}

FreshProgress == [level |-> 1, exp |-> 0, total_quests_completed |-> 0]

Init ==
    /\ EnginesInit
    /\ \E progress \in SavedProgress, g \in InitGauges : player = SavedPlayer(progress, g)
    /\ quests = SavedQuests
    /\ army = << >>
    /\ extraction_history = << >>
    /\ hq = HiddenQuestDetector(now)
    /\ bus = EventBus

\* a run of the shadow army starts from an empty army, from an army of four
\* fresh knights or from a deployed commander that has failed 15 times
Veteran ==
    [ShadowSoldier("commander") EXCEPT !.status = "active", !.exp = 12,
        !.total_executions = 16, !.successful_executions = 1,
        !.failed_executions = 15, !.loyalty = LoyaltyFull - 15 * LoyaltyStep]

SavedArmies == { << >>, <<Veteran>>,
                 <<ShadowSoldier("knight"), ShadowSoldier("knight"),
                   ShadowSoldier("knight"), ShadowSoldier("knight")>> }

InitArmy ==
    /\ EnginesInit
    /\ player = SavedPlayer(FreshProgress, 50)
    /\ quests = SavedQuests
    /\ army \in SavedArmies
    /\ extraction_history = [i \in DOMAIN army |-> army[i].rank]
    /\ hq = HiddenQuestDetector(now)
    /\ bus = EventBus

(***************************************************************************)
(* Calls.  Ctx is the context a call starts from, Commit stores the        *)
(* context it ends with, Called records the call for the properties.       *)
(***************************************************************************)
Ctx == [player |-> player, unlocked |-> unlocked,
        had_procrastination |-> had_procrastination, gold |-> gold,
        emitted |-> << >>]

Commit(c) ==
    /\ player' = c.player
    /\ unlocked' = c.unlocked
    /\ had_procrastination' = c.had_procrastination
    /\ gold' = c.gold
    /\ emitted' = c.emitted

Pre == [level |-> player.level, exp |-> player.exp, stats |-> player.stats,
        mult |-> exp_multipliers(player.active_buffs, 1)]

\* the record of a call: its arguments, its result and the state before it
Returned(op, arg, n, ok, error) ==
    /\ ops' = ops + 1
    /\ last' = [op |-> op, arg |-> arg, n |-> n, ok |-> ok, error |-> error,
                roundtrip |-> FALSE, pre |-> Pre]

Called(op, arg, n, ok) == Returned(op, arg, n, ok, "")

\* BuffEngine.activate_buff(buff_id)
ActivateBuff(buff_id) ==
    /\ ops < MaxOps
    /\ Commit(activate_buff(Ctx, buff_id, now))
    /\ Called("activate", buff_id, 0, ~IsActive(player, buff_id))
    /\ UNCHANGED <<now, purchased_one_time, consecutive_fails, last_check_date,
                   in_penalty_zone, quests, army, extraction_history, hq, fired, busVars, activityVars>>

\* BuffEngine.deactivate_buff(buff_id).  roundtrip marks a deactivation that
\* immediately follows the activation of the same effect; pre then keeps the
\* state before that activation.
DeactivateBuff(buff_id) ==
    /\ ops < MaxOps
    /\ Commit(deactivate_buff(Ctx, buff_id))
    /\ ops' = ops + 1
    /\ LET rt == last.op = "activate" /\ last.arg = buff_id /\ last.ok
       IN  last' = [op |-> "deactivate", arg |-> buff_id, n |-> 0,
                    ok |-> IsActive(player, buff_id), error |-> "",
                    roundtrip |-> rt,
                    pre |-> IF rt THEN last.pre ELSE Pre]
    /\ UNCHANGED <<now, purchased_one_time, consecutive_fails, last_check_date,
                   in_penalty_zone, quests, army, extraction_history, hq, fired, busVars, activityVars>>

\* one turn of the main loop: time passes, SYSTEM_TICK is published and
\* BuffEngine._on_tick sweeps the expired buffs
TickDelays == {10, DayMinutes}

Tick(d) ==
    /\ ops < MaxOps
    /\ now' = now + d
    /\ Commit(check_expired(Ctx, now + d))
    /\ Called("tick", "", d, TRUE)
    /\ UNCHANGED <<purchased_one_time, consecutive_fails, last_check_date,
                   in_penalty_zone, quests, army, extraction_history, hq, fired, busVars, activityVars>>

\* PlayerManager.gain_exp(amount, source) called by an engine
GainInputs == { <<5, "passive">>, <<250, "quest">>, <<1500, "quest">> }

GainExp(amount, source) ==
    /\ ops < MaxOps
    /\ Commit(gain_exp(Ctx, amount, source))
    /\ Called("gain_exp", source, amount, TRUE)
    /\ UNCHANGED <<now, purchased_one_time, consecutive_fails, last_check_date,
                   in_penalty_zone, quests, army, extraction_history, hq, fired, busVars, activityVars>>

\* PenaltySystem.check_daily_completion(completed_today), called d minutes
\* after the previous call of the run
CheckDelays == {0, DayMinutes}

\* the test that makes a later call of the same date return at once
evaluated_today_never(today) == FALSE

evaluated_today(today) == today = last_check_date

check_daily_completion(completed_today, d) ==
    LET today == DateOf(now + d)
        fails == consecutive_fails + 1
        rung == penalty_rung(fails, Len(PENALTY_LEVELS))
        note == Event("notification_push", "penalty", 0)
    IN
    /\ now' = now + d
    /\ IF evaluated_today(today)
       THEN /\ Called("check_daily", "same_day", 0, FALSE)
            /\ emitted' = << >>
            /\ UNCHANGED <<player, consecutive_fails, last_check_date, in_penalty_zone>>
       ELSE /\ last_check_date' = today
            /\ IF completed_today
               THEN /\ Called("check_daily", "completed", 0, FALSE)
                    /\ consecutive_fails' = 0
                    /\ in_penalty_zone' = IF consecutive_fails > 0 THEN FALSE
                                          ELSE in_penalty_zone
                    /\ emitted' = IF consecutive_fails > 0 THEN <<note>> ELSE << >>
                    /\ UNCHANGED player
               ELSE /\ consecutive_fails' = fails
                    /\ IF rung = 0
                       THEN /\ Called("check_daily", "no_rung", 0, FALSE)
                            /\ emitted' = << >>
                            /\ UNCHANGED <<player, in_penalty_zone>>
                       ELSE /\ Called("check_daily", "penalty", PENALTY_LEVELS[rung].level, TRUE)
                            /\ in_penalty_zone' = TRUE
                            /\ player' = apply_penalty(player, PENALTY_LEVELS[rung])
                            /\ emitted' = <<note>>
    /\ UNCHANGED <<unlocked, had_procrastination, gold, purchased_one_time, quests,
                   army, extraction_history, hq, fired, busVars, activityVars>>

CheckDailyCompletion(completed_today, d) ==
    ops < MaxOps /\ check_daily_completion(completed_today, d)

\* the buy_item endpoint: ShopSystem.purchase, then the item's effect
BuyItem(item_id) ==
    LET result == purchase_result(item_id, player.level, gold, purchased_one_time)
        item == SHOP_ITEMS[item_id]
        paid == emit([Ctx EXCEPT !.gold = @ - item.price],
                     Event("notification_push", item_id, item.price))
    IN
    /\ ops < MaxOps
    /\ Called("buy_item", item_id, 0, result = "ok")
    /\ IF result = "ok"
       THEN /\ Commit(apply_item(paid, item))
            /\ purchased_one_time' = IF item.one_time
                                     THEN purchased_one_time \cup {item_id}
                                     ELSE purchased_one_time
       ELSE /\ emitted' = << >>
            /\ UNCHANGED <<player, unlocked, had_procrastination, gold, purchased_one_time>>
    /\ UNCHANGED <<now, consecutive_fails, last_check_date, in_penalty_zone, quests,
                   army, extraction_history, hq, fired, busVars, activityVars>>

\* Database.get_quest finds a row
has_quest(quest_id) == quest_id \in DOMAIN quests

\* Database.get_active_quests
get_active_quests == {q \in DOMAIN quests : quests[q].status \in {"pending", "active"}}

\* the early return of complete_quest
complete_declined_if_absent(quest_id) == ~has_quest(quest_id)

complete_declined(quest_id) ==
    ~has_quest(quest_id) \/ quests[quest_id].status # "active"

\* the early return of fail_quest
fail_declined(quest_id) ==
    ~has_quest(quest_id) \/ quests[quest_id].status # "active"

\* QuestEngine.complete_quest(quest_id)
CompleteQuest(quest_id) ==
    LET quest == quests[quest_id]
        declined == complete_declined(quest_id)
    IN
    /\ ops < MaxOps
    /\ Called("complete_quest", quest_id, 0, ~declined)
    /\ IF declined
       THEN /\ emitted' = << >>
            /\ UNCHANGED <<player, unlocked, had_procrastination, gold, quests>>
       ELSE /\ quests' = [quests EXCEPT ![quest_id].status = "completed"]
            /\ Commit(reward_quest(Ctx, quest_id, quest.exp_reward))
    /\ UNCHANGED <<now, purchased_one_time, consecutive_fails, last_check_date,
                   in_penalty_zone, army, extraction_history, hq, fired, busVars, activityVars>>

\* QuestEngine.fail_quest(quest_id)
FailQuest(quest_id) ==
    LET declined == fail_declined(quest_id)
    IN
    /\ ops < MaxOps
    /\ Called("fail_quest", quest_id, 0, ~declined)
    /\ IF declined
       THEN /\ emitted' = << >>
            /\ UNCHANGED quests
       ELSE /\ quests' = [quests EXCEPT ![quest_id].status = "failed"]
            /\ emitted' = <<Event("quest_failed", quest_id, 0)>>
    /\ UNCHANGED <<now, player, unlocked, had_procrastination, gold, purchased_one_time,
                   consecutive_fails, last_check_date, in_penalty_zone, army, extraction_history, hq, fired, busVars, activityVars>>

\* the quests check_expired_quests expires at time t
overdue_in_any_status(t) ==
    {q \in DOMAIN quests : quests[q].deadline # None /\ quests[q].deadline < t}

overdue(t) ==
    {q \in get_active_quests : quests[q].deadline # None /\ quests[q].deadline < t}

\* a turn of the main loop whose tick count is a multiple of 30: after the
\* SYSTEM_TICK handlers, QuestEngine.check_expired_quests runs
ExpiryTick(d) ==
    /\ ops < MaxOps
    /\ now' = now + d
    /\ quests' = [q \in DOMAIN quests |->
                    IF q \in overdue(now + d) THEN [quests[q] EXCEPT !.status = "expired"]
                    ELSE quests[q]]
    /\ LET c == check_expired(Ctx, now + d)
           late == SelectSeq(QuestScanOrder, LAMBDA q : q \in overdue(now + d))
       IN  /\ player' = c.player
           /\ emitted' = c.emitted \o
                 [i \in DOMAIN late |->
                    [Event("quest_failed", late[i], 0) EXCEPT !.reason = "expired"]]
    /\ Called("expiry_tick", "", d, overdue(now + d) # {})
    /\ UNCHANGED <<unlocked, had_procrastination, gold, purchased_one_time,
                   consecutive_fails, last_check_date, in_penalty_zone, army, extraction_history, hq, fired, busVars, activityVars>>

Next ==
    \/ \E buff_id \in BuffIds : ActivateBuff(buff_id)
    \/ \E buff_id \in BuffIds : DeactivateBuff(buff_id)
    \/ \E d \in TickDelays : Tick(d)
    \/ \E d \in TickDelays : ExpiryTick(d)
    \/ \E g \in GainInputs : GainExp(g[1], g[2])
    \/ \E completed_today \in BOOLEAN, d \in CheckDelays :
          CheckDailyCompletion(completed_today, d)
    \/ \E item_id \in DOMAIN SHOP_ITEMS : BuyItem(item_id)
    \/ \E quest_id \in QuestIds : CompleteQuest(quest_id)
    \/ \E quest_id \in QuestIds : FailQuest(quest_id)

Spec == Init /\ [][Next]_vars

(***************************************************************************)
(* Calls on the shadow army.  shadow_id is the first soldier, the last     *)
(* soldier or an id that is not in the army.                               *)
(***************************************************************************)
ShadowIds == {1, Max(1, Len(army)), Len(army) + 1}
ExtractLevels == {39, 60}

ArmyReturned(op, arg, n, ok, error, events) ==
    /\ Returned(op, arg, n, ok, error)
    /\ emitted' = events
    /\ UNCHANGED <<now, playerVars, hq, fired, busVars, activityVars>>

ArmyCalled(op, arg, n, ok, error, events) ==
    ops < MaxArmyOps /\ ArmyReturned(op, arg, n, ok, error, events)

Note(id) == <<Event("notification_push", id, 0)>>

\* the error a declined call returns
ErrorOf(result) == IF result = "ok" THEN "" ELSE result

ExtractShadow(rank, player_level) ==
    LET result == extract_result(army, rank, player_level)
    IN  /\ army' = extract_shadow(army, rank, player_level)
        /\ extraction_history' = record_extraction(extraction_history, army, rank,
                                                    player_level)
        /\ ArmyCalled("extract", rank, player_level, result = "ok", ErrorOf(result),
                      IF result = "ok" THEN Note("shadow_extraction") ELSE << >>)

DeployShadow(shadow_id) ==
    LET result == deploy_result(army, shadow_id)
    IN  /\ army' = deploy_shadow(army, shadow_id)
        /\ UNCHANGED extraction_history
        /\ ArmyCalled("deploy", "", shadow_id, result = "ok", ErrorOf(result),
                      IF result = "ok" THEN Note("shadow_deploy") ELSE << >>)

RecallShadow(shadow_id) ==
    LET known == shadow_id \in DOMAIN army
    IN  /\ army' = recall_shadow(army, shadow_id)
        /\ UNCHANGED extraction_history
        /\ ArmyCalled("recall", "", shadow_id, known,
                      IF known THEN "" ELSE "absent", << >>)

DestroyShadow(shadow_id) ==
    LET known == shadow_id \in DOMAIN army
    IN  /\ army' = destroy_shadow(army, shadow_id)
        /\ UNCHANGED extraction_history
        /\ ArmyCalled("destroy", "", shadow_id, known, IF known THEN "" ELSE "absent",
                      IF known THEN Note("shadow_destroy") ELSE << >>)

ExecuteShadow(shadow_id) ==
    LET result == execute_result(army, shadow_id)
    IN  /\ army' = execute_shadow(army, shadow_id)
        /\ UNCHANGED extraction_history
        /\ ArmyCalled("execute", "", shadow_id, result = "ok", ErrorOf(result), << >>)

\* ok records the success argument of the report
report_result(shadow_id, success) ==
    LET a == report_execution_result(army, shadow_id, success)
        known == shadow_id \in DOMAIN army
        leveled == known /\ a[shadow_id].level # army[shadow_id].level
        collapsed == known /\ ~success /\ a[shadow_id].loyalty <= LoyaltyCollapse
    IN  /\ army' = a
        /\ UNCHANGED extraction_history
        /\ ArmyReturned("report", "", shadow_id, success, IF known THEN "" ELSE "absent",
                        IF leveled THEN Note("shadow_levelup")
                        ELSE IF collapsed THEN Note("shadow_destroy") ELSE << >>)

ReportExecutionResult(shadow_id, success) ==
    ops < MaxArmyOps /\ report_result(shadow_id, success)

NextArmy ==
    \/ \E r \in DOMAIN Ranks, player_level \in ExtractLevels :
          ExtractShadow(Ranks[r], player_level)
    \/ \E shadow_id \in ShadowIds : DeployShadow(shadow_id)
    \/ \E shadow_id \in ShadowIds : RecallShadow(shadow_id)
    \/ \E shadow_id \in ShadowIds : DestroyShadow(shadow_id)
    \/ \E shadow_id \in ShadowIds : ExecuteShadow(shadow_id)
    \/ \E shadow_id \in ShadowIds, success \in BOOLEAN :
          ReportExecutionResult(shadow_id, success)

SpecArmy == InitArmy /\ [][NextArmy]_vars

(***************************************************************************)
(* The career of one soldier: a normal shadow has just been extracted and  *)
(* its executions are reported, one after the other.                       *)
(***************************************************************************)
InitCareer ==
    /\ EnginesInit
    /\ player = SavedPlayer(FreshProgress, 50)
    /\ quests = SavedQuests
    /\ army = extract_shadow(<< >>, "normal", RANK_REQUIRED_LEVELS["normal"])
    /\ extraction_history = <<"normal">>
    /\ hq = HiddenQuestDetector(now)
    /\ bus = EventBus

ReportCareer(success) ==
    ops < MaxReports /\ report_result(1, success)

NextCareer == \E success \in BOOLEAN : ReportCareer(success)

SpecCareer == InitCareer /\ [][NextCareer]_vars


(***************************************************************************)
(* Calls of the hidden-quest detector.  A call happens d minutes after     *)
(* the previous one; the detector has no callers in the repository, so    *)
(* the arguments are drawn from three situations: a productive session    *)
(* with every counter met, a distracted one, and the defaults.            *)
(***************************************************************************)
Session ==
    [current_category |-> "coding", focus_score |-> 90, pattern_type |-> "deep_focus",
     player_level |-> 1, quests_completed |-> 1, shadow_army_size |-> 0,
     daily_all_done |-> TRUE, side_quests_done |-> 2, device_id |-> "mac",
     active_devices_today |-> 1]

Distracted ==
    [current_category |-> "social", focus_score |-> 20, pattern_type |-> "distraction",
     player_level |-> 1, quests_completed |-> 0, shadow_army_size |-> 0,
     daily_all_done |-> FALSE, side_quests_done |-> 0, device_id |-> "phone",
     active_devices_today |-> 1]

Defaults ==
    [current_category |-> "", focus_score |-> 0, pattern_type |-> "",
     player_level |-> 1, quests_completed |-> 0, shadow_army_size |-> 0,
     daily_all_done |-> FALSE, side_quests_done |-> 0, device_id |-> "",
     active_devices_today |-> 1]

CheckArgs == {Session, Distracted, Defaults}
CheckGaps == {240, DayMinutes}

InitHidden ==
    /\ EnginesInit
    /\ player = SavedPlayer(FreshProgress, 50)
    /\ quests = SavedQuests
    /\ army = << >>
    /\ extraction_history = << >>
    /\ hq = HiddenQuestDetector(now)
    /\ bus = EventBus

CheckTriggers(args, d, draw) ==
    /\ ops < MaxChecks
    /\ LET t == now + d
           r == check_triggers(hq, args, t, draw)
       IN  /\ now' = t
           /\ hq' = r.h
           /\ fired' = Append(fired, [t |-> t, args |-> args, ids |-> r.triggered,
                                      drawn |-> drawn_in_scan(hq, 1, args, t, draw),
                                      streak_days |-> r.h.streak_days])
           /\ last' = [op |-> "check", arg |-> args.current_category,
                       n |-> Len(r.triggered), ok |-> r.triggered # << >>,
                       error |-> "", roundtrip |-> FALSE, pre |-> Pre]
    /\ ops' = ops + 1
    /\ UNCHANGED <<playerVars, quests, emitted, army, extraction_history, busVars, activityVars>>

ResetDaily ==
    /\ ops < MaxChecks
    /\ hq' = reset_daily(hq)
    /\ ops' = ops + 1
    /\ UNCHANGED <<now, playerVars, quests, emitted, last, army, extraction_history, fired, busVars,
                   activityVars>>

NextHidden ==
    \/ \E args \in CheckArgs, d \in CheckGaps, draw \in BOOLEAN : CheckTriggers(args, d, draw)
    \/ ResetDaily

SpecHidden == InitHidden /\ [][NextHidden]_vars

\* calls in quick succession, with the default arguments
RandomGaps == {20, 30, DayMinutes}

NextRandom == \E d \in RandomGaps, draw \in BOOLEAN : CheckTriggers(Defaults, d, draw)

SpecRandom == InitHidden /\ [][NextRandom]_vars


(***************************************************************************)
(* system/quest_engine.py: the creation of quests.  A created quest's id   *)
(* is a prefix followed by random hexadecimal digits; the model keeps the  *)
(* prefix (kind, and the date for a daily quest) and numbers the rows in   *)
(* place of the digits, so that every created id is new.  Titles are       *)
(* written in English.                                                     *)
(***************************************************************************)
DAILY_QUESTS ==
    << [title |-> "morning_training", difficulty |-> "D", exp_reward |-> 20],
       [title |-> "knowledge_intake", difficulty |-> "D", exp_reward |-> 20],
       [title |-> "focus_moment", difficulty |-> "C", exp_reward |-> 30] >>

\* the lower end of each range, the default reward of a suggestion
DIFFICULTY_EXP == [E |-> 5, D |-> 15, C |-> 30, B |-> 60, A |-> 120, S |-> 250]

QuestId(kind, date, uuid) == [kind |-> kind, date |-> date, uuid |-> uuid]

new_uuid(table) == Cardinality(DOMAIN table) + 1

\* Database.get_active_quests over a table
active_in(table) == {q \in DOMAIN table : table[q].status \in {"pending", "active"}}

\* Database.save_quest of a new row
save_quest(table, id, row) == [q \in DOMAIN table \cup {id} |-> IF q = id THEN row ELSE table[q]]

\* q.type == DAILY and q.id.startswith("daily_<today>")
is_daily_of(table, q, today) ==
    table[q].type = "daily" /\ q.kind = "daily" /\ q.date = today

\* a quest context k carries the quest table and the events published
QuestTriggered(id, row) == Event("quest_triggered", id, row.exp_reward)

\* the loop of generate_daily_quests from the i-th template on
RECURSIVE instantiate(_, _, _)
instantiate(k, t, i) ==
    IF i > Len(DAILY_QUESTS) THEN k
    ELSE LET template == DAILY_QUESTS[i]
             id == QuestId("daily", DateOf(t), new_uuid(k.quests))
             row == Quest("daily", template.title, template.difficulty,
                          template.exp_reward, DateOf(t) * DayMinutes + DayMinutes - 1)
         IN  instantiate([quests |-> save_quest(k.quests, id, row),
                          emitted |-> Append(k.emitted, QuestTriggered(id, row)),
                          returned |-> k.returned \cup {id}],
                         t, i + 1)

existing_daily(table, t) ==
    {q \in active_in(table) : is_daily_of(table, q, DateOf(t))}

\* QuestEngine.generate_daily_quests at time t; returned is the set of the
\* quests the call returns
generate_daily_quests(table, t) ==
    IF existing_daily(table, t) # {}
    THEN [quests |-> table, emitted |-> << >>, returned |-> existing_daily(table, t)]
    ELSE instantiate([quests |-> table, emitted |-> << >>, returned |-> {}], t, 1)

\* a suggestion: exp_reward is None and type is "" when the key is absent
Suggestion(title, difficulty, exp_reward, type) ==
    [title |-> title, difficulty |-> difficulty, exp_reward |-> exp_reward, type |-> type]

\* the duplicate check of create_quest_from_ai
title_taken_never(table, title) == FALSE

title_taken(table, title) == \E q \in active_in(table) : table[q].title = title

\* QuestEngine.create_quest_from_ai; returned holds the quest made and is
\* empty when the call returns None
create_quest_from_ai(k, suggestion) ==
    IF suggestion.title = "" THEN [k EXCEPT !.returned = {}]
    ELSE IF title_taken(k.quests, suggestion.title) THEN [k EXCEPT !.returned = {}]
    ELSE LET exp_reward == IF suggestion.exp_reward = None
                           THEN DIFFICULTY_EXP[suggestion.difficulty]
                           ELSE suggestion.exp_reward
             id == QuestId("auto", None, new_uuid(k.quests))
             row == Quest(IF suggestion.type = "" THEN "side" ELSE suggestion.type,
                          suggestion.title, suggestion.difficulty, exp_reward, None)
         IN  [quests |-> save_quest(k.quests, id, row),
              emitted |-> Append(k.emitted, QuestTriggered(id, row)),
              returned |-> {id}]

\* the loop of _on_motive_inferred over suggested[:2]
RECURSIVE create_each(_, _, _)
create_each(k, suggested, i) ==
    IF i > Len(suggested) THEN k
    ELSE create_each(create_quest_from_ai(k, suggested[i]), suggested, i + 1)

max_active_quests == 10
suggestions_per_event == 2

\* QuestEngine._on_motive_inferred
quest_on_motive_inferred(k, suggested) ==
    IF Cardinality(active_in(k.quests)) >= max_active_quests THEN k
    ELSE create_each(k, SubSeq(suggested, 1, Min(suggestions_per_event, Len(suggested))), 1)

\* QuestEngine._on_pattern_detected
quest_on_pattern_detected(k, pattern) ==
    IF pattern = "procrastination"
    THEN create_quest_from_ai(k, Suggestion("overcome_inertia", "B", 80, "emergency"))
    ELSE k

\* BuffEngine._on_motive_inferred; buff_type is "none" unless the motive
\* carries a suggestion with should_activate
pattern_buff_map ==
    [deep_focus |-> "focus_zone", creative |-> "creativity_spark",
     learning |-> "learning_boost", distraction |-> "distraction_fog",
     fatigue |-> "fatigue_warning", procrastination |-> "procrastination_curse"]

buff_on_motive_inferred(c, buff_type, pattern, t) ==
    activate_buff(activate_buff(c, buff_type, t),
                  IF pattern \in DOMAIN pattern_buff_map
                  THEN pattern_buff_map[pattern] ELSE "none",
                  t)

(***************************************************************************)
(* The analysis of one activity record: system/exp_engine.py,              *)
(* cognition/pattern_detector.py and the CONTEXT_ANALYZED handlers of      *)
(* BuffEngine and AchievementEngine.  A focus score is written in          *)
(* hundredths; an average is compared through the sum and the count.       *)
(***************************************************************************)
PASSIVE_EXP_RULES ==
    [ coding   |-> [base_exp |-> 3, focus_multiplier |-> TRUE],
      writing  |-> [base_exp |-> 3, focus_multiplier |-> TRUE],
      learning |-> [base_exp |-> 4, focus_multiplier |-> TRUE],
      work     |-> [base_exp |-> 2, focus_multiplier |-> TRUE],
      creative |-> [base_exp |-> 3, focus_multiplier |-> TRUE],
      browsing |-> [base_exp |-> 1, focus_multiplier |-> FALSE],
      social   |-> [base_exp |-> 0, focus_multiplier |-> FALSE],
      media    |-> [base_exp |-> 0, focus_multiplier |-> FALSE],
      gaming   |-> [base_exp |-> 0, focus_multiplier |-> FALSE],
      idle     |-> [base_exp |-> 0, focus_multiplier |-> FALSE] ]

\* sorted(FOCUS_STREAK_BONUSES.items())
FOCUS_STREAK_BONUSES == << <<3, 5>>, <<6, 15>>, <<10, 30>>, <<15, 50>> >>

passive_rule(category) ==
    IF category \in DOMAIN PASSIVE_EXP_RULES THEN PASSIVE_EXP_RULES[category]
    ELSE [base_exp |-> 0, focus_multiplier |-> FALSE]

\* int(base_exp * (1.0 + (focus_score - 0.5) * 2)) when the rule has a focus
\* multiplier and the score is above 0.5 (the integer quotient equals the
\* floating point result for every base and score the model uses)
passive_exp(category, focus_score) ==
    LET rule == passive_rule(category)
    IN  IF rule.focus_multiplier /\ focus_score > 50
        THEN (rule.base_exp * (100 + (focus_score - 50) * 2)) \div 100
        ELSE rule.base_exp

\* the update of ExpEngine._focus_streak
next_streak_strict(streak, focus_score) ==
    IF focus_score > 90 THEN streak + 1 ELSE Max(0, streak - 1)

next_streak(streak, focus_score) ==
    IF focus_score >= 60 THEN streak + 1 ELSE Max(0, streak - 1)

\* the loop over the streak thresholds, from the i-th on: b.bonus is
\* streak_bonus, b.last is _last_streak_bonus
streak_bonus_without_marker(b, streak, i) ==
    LET reached == {j \in DOMAIN FOCUS_STREAK_BONUSES : streak >= FOCUS_STREAK_BONUSES[j][1]}
        top == CHOOSE j \in reached : \A k \in reached : k <= j
    IN  IF reached = {} THEN b
        ELSE [bonus |-> FOCUS_STREAK_BONUSES[top][2], last |-> FOCUS_STREAK_BONUSES[top][1]]

RECURSIVE streak_bonus(_, _, _)
streak_bonus(b, streak, i) ==
    IF i > Len(FOCUS_STREAK_BONUSES) THEN b
    ELSE LET threshold == FOCUS_STREAK_BONUSES[i][1]
         IN  streak_bonus(IF streak >= threshold /\ threshold > b.last
                          THEN [bonus |-> FOCUS_STREAK_BONUSES[i][2], last |-> threshold]
                          ELSE b,
                          streak, i + 1)

\* A handler of CONTEXT_ANALYZED is written as the sequence of the calls it
\* makes on the player and the other engines, in the order it makes them; a
\* call is [kind, id, n].

\* ExpEngine._on_context_analyzed: the engine's fields afterwards and the
\* calls made (base_exp > 0 makes total_exp > 0)
exp_on_context_analyzed(e, category, focus_score) ==
    LET base_exp == passive_rule(category).base_exp
        streak == next_streak(e.focus_streak, focus_score)
        b == streak_bonus([bonus |-> 0, last |-> e.last_streak_bonus], streak, 1)
        total_exp == passive_exp(category, focus_score) + b.bonus
    IN  IF base_exp <= 0
        THEN [exp_engine |-> [e EXCEPT !.focus_streak = IF focus_score < 30 THEN 0 ELSE @],
              calls |-> << >>]
        ELSE [exp_engine |-> [focus_streak |-> streak,
                              last_streak_bonus |-> b.last,
                              total_passive_exp |-> e.total_passive_exp + total_exp],
              calls |-> (IF b.bonus > 0
                         THEN << [kind |-> "notify", id |-> "focus_streak", n |-> b.bonus] >>
                         ELSE << >>)
                        \o << [kind |-> "gain_exp", id |-> "passive", n |-> total_exp] >>]

\* BuffEngine._on_context_analyzed: the calls made
buff_on_context_analyzed(category, focus_score, t) ==
    (IF focus_score >= 80 THEN << [kind |-> "activate", id |-> "focus_zone", n |-> 0] >>
     ELSE IF focus_score < 30
     THEN << [kind |-> "deactivate", id |-> "focus_zone", n |-> 0] >>
     ELSE << >>)
    \o (IF category = "social" /\ focus_score < 40
        THEN << [kind |-> "activate", id |-> "distraction_fog", n |-> 0] >>
        ELSE << >>)
    \o (IF HourOf(t) >= 23 \/ HourOf(t) < 5
        THEN << [kind |-> "activate", id |-> "night_owl", n |-> 0] >>
        ELSE << [kind |-> "deactivate", id |-> "night_owl", n |-> 0] >>)

\* AchievementEngine._on_context_analyzed: _focus_streak afterwards and the
\* calls of _unlock made
achievement_on_context_analyzed(streak_before, category, focus_score, t) ==
    LET timed == category \notin {"idle", "unknown"}
        streak == streak_before + 1
        tested == << <<timed /\ 2 <= HourOf(t) /\ HourOf(t) < 5, "night_owl">>,
                     <<timed /\ HourOf(t) < 6, "early_bird">>,
                     <<timed /\ WeekdayOf(t) >= 5, "weekend_grind">>,
                     <<focus_score >= 70 /\ streak >= 10, "focus_streak_10">>,
                     <<focus_score >= 70 /\ streak >= 20, "focus_streak_20">> >>
        passed == SelectSeq(tested, LAMBDA x : x[1])
    IN  [focus_streak |-> IF focus_score >= 70 THEN streak ELSE 0,
         calls |-> [i \in DOMAIN passed |-> [kind |-> "unlock", id |-> passed[i][2], n |-> 0]]]

\* AchievementEngine._on_pattern_detected
achievement_on_pattern_detected(c, pattern) ==
    IF pattern = "procrastination" THEN [c EXCEPT !.had_procrastination = TRUE] ELSE c

\* one call of a handler, made at time t
perform_call(c, call, t) ==
    CASE call.kind = "activate" -> activate_buff(c, call.id, t)
      [] call.kind = "deactivate" -> deactivate_buff(c, call.id)
      [] call.kind = "unlock" -> unlock(c, call.id)
      [] call.kind = "gain_exp" -> gain_exp(c, call.n, call.id)
      [] call.kind = "notify" -> emit(c, Event("notification_push", call.id, call.n))
      [] call.kind = "pattern_detected" ->
            achievement_on_pattern_detected(emit(c, Event("pattern_detected", call.id, 0)),
                                            call.id)
      [] call.kind = "quest_triggered" -> emit(c, Event("quest_triggered", call.id, call.n))

RECURSIVE perform(_, _, _, _)
perform(c, calls, t, i) ==
    IF i > Len(calls) THEN c
    ELSE perform(perform_call(c, calls[i], t), calls, t, i + 1)

\* a row of the snapshots table
ContextSnapshot(category, focus_score, t) ==
    [activity_category |-> category, focus_score |-> focus_score, timestamp |-> t]

\* Database.get_recent_snapshots(limit): the newest rows, newest first
get_recent_snapshots(table, limit) ==
    LET n == Min(limit, Len(table))
    IN  [i \in 1..n |-> table[Len(table) + 1 - i]]

RECURSIVE SeqSum(_)
SeqSum(q) == IF q = << >> THEN 0 ELSE Head(q) + SeqSum(Tail(q))

\* the pattern PatternDetector.detect computes from the recent snapshots
detected_pattern(recent, window_history, t) ==
    LET focus_scores == SelectSeq([i \in DOMAIN recent |-> recent[i].focus_score],
                                  LAMBDA f : f > 0)
        categories == SelectSeq([i \in DOMAIN recent |-> recent[i].activity_category],
                                LAMBDA x : x # "")
        \* avg_focus is total / count
        total == IF focus_scores = << >> THEN 50 ELSE SeqSum(focus_scores)
        count == IF focus_scores = << >> THEN 1 ELSE Len(focus_scores)
        category_counts(x) == Len(SelectSeq(categories, LAMBDA y : y = x))
        switch_rate == Len(SelectSeq(window_history, LAMBDA w : w > t - 5))
    IN  IF Len(recent) >= 3 /\ total >= 75 * count
           /\ \A i \in 1..3 : recent[i].activity_category = ""
                 \/ recent[i].activity_category \in {"coding", "writing", "work", "learning"}
        THEN "deep_focus"
        ELSE IF total < 35 * count /\ switch_rate >= 8 THEN "distraction"
        ELSE IF 2 * category_counts("learning") >= Len(categories) /\ Len(categories) >= 2
        THEN "learning"
        ELSE IF 2 * (category_counts("writing") + category_counts("creative"))
                   >= Len(categories)
        THEN "creative"
        ELSE IF Len(recent) >= 4 /\ total < 30 * count
        THEN (IF HourOf(t) >= 23 \/ HourOf(t) < 5 \/ total < 20 * count
              THEN "fatigue" ELSE "normal")
        ELSE IF switch_rate >= 10 /\ total < 40 * count
        THEN (IF 10 * (category_counts("social") + category_counts("media"))
                    > 4 * Max(Len(categories), 1)
              THEN "procrastination" ELSE "normal")
        ELSE "normal"

\* PatternDetector.detect: the pattern returned, the detector afterwards and
\* whether PATTERN_DETECTED is published
detect_at_every_call(table, detector, t) ==
    LET recent == get_recent_snapshots(table, 10)
        detected == detected_pattern(recent, detector.window_history, t)
    IN  IF Len(recent) < 2
        THEN [pattern |-> "normal", detector |-> detector, published |-> FALSE]
        ELSE [pattern |-> detected,
              detector |-> [detector EXCEPT !.last_pattern = detected],
              published |-> detected # "normal"]

detect(table, detector, t) ==
    LET recent == get_recent_snapshots(table, 10)
        detected == detected_pattern(recent, detector.window_history, t)
    IN  IF Len(recent) < 2
        THEN [pattern |-> "normal", detector |-> detector, published |-> FALSE]
        ELSE [pattern |-> detected,
              detector |-> [detector EXCEPT !.last_pattern = detected],
              published |-> detected # detector.last_pattern /\ detected # "normal"]

\* AchievementEngine.check_shadow_army
check_shadow_army(c, army_size, max_shadow_level) ==
    unlock(unlock(c, IF army_size >= 5 THEN "shadow_5" ELSE ""),
           IF max_shadow_level >= 10 THEN "shadow_level_10" ELSE "")

\* AchievementEngine.check_daily_streak
check_daily_streak(c, streak) ==
    unlock(unlock(unlock(c, IF streak >= 3 THEN "daily_streak_3" ELSE ""),
                  IF streak >= 7 THEN "daily_streak_7" ELSE ""),
           IF streak >= 30 THEN "daily_streak_30" ELSE "")

\* AchievementEngine.check_skill_activation
check_skill_activation(c) == unlock(c, "skill_first_activate")

\* AchievementEngine.check_all_daily_done
check_all_daily_done(c) == unlock(c, "all_daily")

(***************************************************************************)
(* Calls of the quest engine.  A run starts from an empty quests table,    *)
(* from the table of a day whose daily quests were generated and two of    *)
(* them completed, or from a table of nine active suggested quests.        *)
(***************************************************************************)
EmptyTable == [q \in {} |-> 0]

NoQuests == [quests |-> EmptyTable, emitted |-> << >>, returned |-> {}]

DailiesPartlyDone ==
    LET made == generate_daily_quests(EmptyTable, 9 * 60).quests
    IN  [q \in DOMAIN made |->
           IF q.uuid <= 2 THEN [made[q] EXCEPT !.status = "completed"] ELSE made[q]]

NineTitles == <<"t1", "t2", "t3", "t4", "t5", "t6", "t7", "t8", "t9">>

NineActive ==
    create_each(NoQuests, [i \in DOMAIN NineTitles |->
                              Suggestion(NineTitles[i], "E", None, "")], 1).quests

SavedTables == {EmptyTable, DailiesPartlyDone, NineActive}

InitQuests ==
    /\ EnginesInit
    /\ player = SavedPlayer(FreshProgress, 50)
    /\ quests \in SavedTables
    /\ army = << >>
    /\ extraction_history = << >>
    /\ hq = HiddenQuestDetector(now)
    /\ bus = EventBus

\* the suggestions a motive or a caller carries
WriteTests == Suggestion("write_tests", "C", None, "")
ReadPaper == Suggestion("read_paper", "D", 40, "side")
Untitled == Suggestion("", "C", None, "")
Inertia == Suggestion("overcome_inertia", "B", 80, "emergency")

SuggestedLists ==
    { << >>, <<WriteTests>>, <<WriteTests, ReadPaper>>, <<WriteTests, WriteTests>>,
      <<ReadPaper, Untitled, WriteTests>> }

\* the rows a call names: the three oldest and the newest
QuestChoices ==
    {q \in DOMAIN quests : q.uuid <= 3 \/ q.uuid = Cardinality(DOMAIN quests)}

RECURSIVE newest_first(_)
newest_first(ids) ==
    IF ids = {} THEN << >>
    ELSE LET newest == CHOOSE q \in ids : \A r \in ids : r.uuid <= q.uuid
         IN  <<newest>> \o newest_first(ids \ {newest})

QuestCalled(op, arg, n, ok) ==
    /\ ops < MaxOps
    /\ Called(op, arg, n, ok)
    /\ UNCHANGED <<purchased_one_time, consecutive_fails, last_check_date,
                   in_penalty_zone, army, extraction_history, hq, fired, busVars,
                   snapshots, pattern_detector, exp_engine, focus_streak>>

\* QuestEngine.generate_daily_quests(); n is the number of quests created
GenerateDaily ==
    LET r == generate_daily_quests(quests, now)
    IN  /\ quests' = r.quests
        /\ emitted' = r.emitted
        /\ quests_returned' = r.returned
        /\ QuestCalled("generate_daily", "", Len(r.emitted), TRUE)
        /\ UNCHANGED <<now, player, unlocked, had_procrastination, gold>>

\* QuestEngine.create_quest_from_ai(suggestion); ok tells that a quest was
\* returned
CreateQuestFromAI(suggestion) ==
    LET r == create_quest_from_ai([NoQuests EXCEPT !.quests = quests], suggestion)
    IN  /\ quests' = r.quests
        /\ emitted' = r.emitted
        /\ quests_returned' = r.returned
        /\ QuestCalled("create_quest", suggestion.title, Len(r.emitted), r.returned # {})
        /\ UNCHANGED <<now, player, unlocked, had_procrastination, gold>>

\* a MOTIVE_INFERRED event is published: QuestEngine._on_motive_inferred,
\* then BuffEngine._on_motive_inferred; n is the number of quests created
MotiveInferred(suggested, buff_type, pattern) ==
    LET r == quest_on_motive_inferred([NoQuests EXCEPT !.quests = quests], suggested)
    IN  /\ quests' = r.quests
        /\ Commit(buff_on_motive_inferred([Ctx EXCEPT !.emitted = r.emitted],
                                          buff_type, pattern, now))
        /\ quests_returned' = {}
        /\ QuestCalled("motive_inferred", pattern, Len(r.emitted), TRUE)
        /\ UNCHANGED now

\* the main loop after d minutes: the SYSTEM_TICK handlers, then
\* QuestEngine.check_expired_quests
QuestExpiryTick(d) ==
    LET c == check_expired(Ctx, now + d)
        late == newest_first(overdue(now + d))
    IN  /\ now' = now + d
        /\ quests' = [q \in DOMAIN quests |->
                        IF q \in overdue(now + d)
                        THEN [quests[q] EXCEPT !.status = "expired"] ELSE quests[q]]
        /\ player' = c.player
        /\ emitted' = c.emitted \o
              [i \in DOMAIN late |->
                 [Event("quest_failed", late[i], 0) EXCEPT !.reason = "expired"]]
        /\ quests_returned' = {}
        /\ QuestCalled("expiry_tick", "", d, late # << >>)
        /\ UNCHANGED <<unlocked, had_procrastination, gold>>

NextQuests ==
    \/ GenerateDaily
    \/ \E suggestion \in {WriteTests, ReadPaper, Inertia} : CreateQuestFromAI(suggestion)
    \/ \E suggested \in SuggestedLists :
          \E m \in {<<"none", "normal">>, <<"focus_zone", "procrastination">>} :
             MotiveInferred(suggested, m[1], m[2])
    \/ \E quest_id \in QuestChoices : CompleteQuest(quest_id)
    \/ \E quest_id \in QuestChoices : FailQuest(quest_id)
    \/ \E d \in TickDelays : QuestExpiryTick(d)

SpecQuests == InitQuests /\ [][NextQuests]_vars

(***************************************************************************)
(* Calls that analyse activity and check achievements.  A run starts on a  *)
(* new snapshots table with the day's daily quests generated, from a new   *)
(* player or a saved one, with or without ten window switches in the last  *)
(* minute.  The handlers of one event are run one after the other in the   *)
(* order of their registration (BuffEngine, ExpEngine, AchievementEngine   *)
(* for CONTEXT_ANALYZED; QuestEngine, AchievementEngine for                *)
(* PATTERN_DETECTED).                                                      *)
(***************************************************************************)
TenSwitches == [i \in 1..10 |-> 9 * 60]

\* the records a run posts; every average of up to six of these scores lies on
\* the same side of each threshold of detect as its floating point value
Activities == { <<"coding", 90>>, <<"social", 38>>, <<"idle", 25>>, <<"learning", 38>> }

InitActivity ==
    /\ now = 9 * 60
    /\ ops = 0
    /\ unlocked = {}
    /\ had_procrastination = FALSE
    /\ gold = 0
    /\ purchased_one_time = {}
    /\ consecutive_fails = 0
    /\ last_check_date = None
    /\ in_penalty_zone = FALSE
    /\ emitted = << >>
    /\ last = NoCall
    /\ fired = << >>
    /\ delivered = << >>
    /\ system = SoloLevelingSystem
    /\ tasks = NoTasks
    /\ snapshots = << >>
    /\ exp_engine = [focus_streak |-> 0, last_streak_bonus |-> 0, total_passive_exp |-> 0]
    /\ focus_streak = 0
    /\ quests_returned = {}
    /\ quests = generate_daily_quests(EmptyTable, now).quests
    /\ army = << >>
    /\ extraction_history = << >>
    /\ hq = HiddenQuestDetector(now)
    /\ bus = EventBus
    /\ \E start \in { <<FreshProgress, << >> >>, <<FreshProgress, TenSwitches>>,
                      <<[level |-> 4, exp |-> 650, total_quests_completed |-> 9], << >> >> } :
          /\ player = SavedPlayer(start[1], 50)
          /\ pattern_detector = [last_pattern |-> "normal", window_history |-> start[2]]

\* POST /api/simulate: the record is stored, CONTEXT_ANALYZED is published
\* and the pattern detector runs; a published PATTERN_DETECTED is handled by
\* the QuestEngine and the AchievementEngine.  arg is the pattern the call
\* reports.
simulate_activity(category, focus_score) ==
    LET exp == exp_on_context_analyzed(exp_engine, category, focus_score)
        ach == achievement_on_context_analyzed(focus_streak, category, focus_score, now)
        d == detect(Append(snapshots, ContextSnapshot(category, focus_score, now)),
                    pattern_detector, now)
        k == IF d.published
             THEN quest_on_pattern_detected([NoQuests EXCEPT !.quests = quests], d.pattern)
             ELSE [NoQuests EXCEPT !.quests = quests]
        calls == buff_on_context_analyzed(category, focus_score, now)
                 \o exp.calls \o ach.calls
                 \o (IF d.published
                     THEN << [kind |-> "pattern_detected", id |-> d.pattern, n |-> 0] >>
                     ELSE << >>)
                 \o [i \in DOMAIN k.emitted |->
                       [kind |-> "quest_triggered", id |-> k.emitted[i].id,
                        n |-> k.emitted[i].n]]
    IN  /\ snapshots' = Append(snapshots, ContextSnapshot(category, focus_score, now))
        /\ exp_engine' = exp.exp_engine
        /\ focus_streak' = ach.focus_streak
        /\ pattern_detector' = d.detector
        /\ quests' = k.quests
        /\ Commit(perform(Ctx, calls, now, 1))
        /\ Called("simulate", d.pattern, focus_score, TRUE)
        /\ UNCHANGED <<now, purchased_one_time, consecutive_fails, last_check_date,
                       in_penalty_zone, army, extraction_history, hq, fired, busVars, quests_returned>>

SimulateActivity(category, focus_score) ==
    ops < MaxOps /\ simulate_activity(category, focus_score)

AchievementChecked(c, op, n) ==
    /\ ops < MaxOps
    /\ Commit(c)
    /\ Called(op, "", n, TRUE)
    /\ UNCHANGED <<now, purchased_one_time, consecutive_fails, last_check_date,
                   in_penalty_zone, quests, army, extraction_history, hq, fired, busVars, activityVars>>

CheckShadowArmy(army_size, max_shadow_level) ==
    AchievementChecked(check_shadow_army(Ctx, army_size, max_shadow_level),
                       "check_shadow_army", army_size)

CheckDailyStreak(streak) ==
    AchievementChecked(check_daily_streak(Ctx, streak), "check_daily_streak", streak)

CheckSkillActivation ==
    AchievementChecked(check_skill_activation(Ctx), "check_skill_activation", 0)

CheckAllDailyDone ==
    AchievementChecked(check_all_daily_done(Ctx), "check_all_daily_done", 0)

NextActivity ==
    \/ \E a \in Activities : SimulateActivity(a[1], a[2])
    \/ \E a \in { <<5, 10>>, <<4, 3>> } : CheckShadowArmy(a[1], a[2])
    \/ \E streak \in {2, 7} : CheckDailyStreak(streak)
    \/ CheckSkillActivation
    \/ CheckAllDailyDone
    \/ \E quest_id \in QuestChoices : CompleteQuest(quest_id)
    \/ \E buff_id \in {"focus_zone", "fatigue_warning"} : ActivateBuff(buff_id)
    \/ \E g \in { <<250, "quest">>, <<1500, "quest">> } : GainExp(g[1], g[2])
    \/ \E d \in {10, 18 * 60} : Tick(d)

SpecActivity == InitActivity /\ [][NextActivity]_vars

(***************************************************************************)
(* Records posted with and without a category, all with focus score 0.5    *)
(* (every average is exactly 0.5).                                         *)
(***************************************************************************)
CategoryRecords == { <<"", 50>>, <<"writing", 50>>, <<"creative", 50>>, <<"social", 50>> }

NextPatterns == \E a \in CategoryRecords : SimulateActivity(a[1], a[2])

SpecPatterns == InitActivity /\ [][NextPatterns]_vars

(***************************************************************************)
(* A longer run of records: focused work, unfocused study, idling.         *)
(***************************************************************************)
StreakRecords == { <<"coding", 90>>, <<"learning", 38>>, <<"idle", 25>> }

RecordActivity(category, focus_score) ==
    ops < MaxRecords /\ simulate_activity(category, focus_score)

NextStreak == \E a \in StreakRecords : RecordActivity(a[1], a[2])

SpecStreak == InitActivity /\ [][NextStreak]_vars

(***************************************************************************)
(* Calls of the effect engine alone: activation, deactivation and the      *)
(* sweeps of the main loop.                                                *)
(***************************************************************************)
NextBuffs ==
    \/ \E buff_id \in BuffIds : ActivateBuff(buff_id)
    \/ \E buff_id \in BuffIds : DeactivateBuff(buff_id)
    \/ \E d \in TickDelays : Tick(d)
    \/ \E d \in TickDelays : ExpiryTick(d)

SpecBuffs == Init /\ [][NextBuffs]_vars

(***************************************************************************)
(* Calls of gain_exp alone, with amounts that cross several levels.        *)
(***************************************************************************)
LevelGains == { <<250, "quest">>, <<1100, "quest">>, <<1500, "quest">> }

NextLevels == \E in \in LevelGains : GainExp(in[1], in[2])

SpecLevels == Init /\ [][NextLevels]_vars

(***************************************************************************)
(* Calls of the penalty system alone: up to MaxPenaltyOps evaluations, on  *)
(* the date of the previous one or on the next date.                       *)
(***************************************************************************)
PenaltyCheck(completed_today, d) ==
    ops < MaxPenaltyOps /\ check_daily_completion(completed_today, d)

NextPenalty == \E completed_today \in BOOLEAN, d \in CheckDelays : PenaltyCheck(completed_today, d)

SpecPenalty == Init /\ [][NextPenalty]_vars

(***************************************************************************)
(* Calls of the event bus.  A run starts from a new bus, from a bus whose  *)
(* handlers are registered, and from either after 999 publishes.           *)
(***************************************************************************)
Wired == [quest_completed |-> <<"h1", "h2">>, level_up |-> <<"h2">>]

Published999 ==
    [i \in 1..999 |-> BusEvent(IF i % 2 = 0 THEN "level_up" ELSE "quest_completed", i)]

SavedBuses ==
    { [handlers |-> h, history |-> p, published |-> Len(p)] :
         h \in {EventBus.handlers, Wired}, p \in {<< >>, Published999} }

InitBus ==
    /\ EnginesInit
    /\ player = SavedPlayer(FreshProgress, 50)
    /\ quests = SavedQuests
    /\ army = << >>
    /\ extraction_history = << >>
    /\ hq = HiddenQuestDetector(now)
    /\ bus \in SavedBuses

BusCalled(op, arg, n, ok) ==
    /\ ops < MaxBusOps
    /\ Called(op, arg, n, ok)
    /\ UNCHANGED <<now, playerVars, emitted, army, extraction_history, hq, fired, activityVars>>

On(event_type, handler) ==
    /\ bus' = EventBus_on(bus, event_type, handler)
    /\ BusCalled("on", event_type, 0, TRUE)
    /\ UNCHANGED <<delivered, system, tasks>>

Off(event_type, handler) ==
    /\ bus' = EventBus_off(bus, event_type, handler)
    /\ BusCalled("off", event_type, 0, InSeq(handler, bus.handlers[event_type]))
    /\ UNCHANGED <<delivered, system, tasks>>

\* ok tells that emit returned normally; n is the number of the event
Emit(event_type, raises) ==
    LET r == EventBus_emit(bus, event_type, raises)
    IN  /\ bus' = r.bus
        /\ delivered' = r.result.calls
        /\ BusCalled("emit", event_type, bus.published + 1, ~r.result.propagated)
        /\ UNCHANGED <<system, tasks>>

NextBus ==
    \/ \E event_type \in BusEventTypes, handler \in HandlerIds : On(event_type, handler)
    \/ \E event_type \in BusEventTypes, handler \in HandlerIds : Off(event_type, handler)
    \/ \E event_type \in BusEventTypes, raises \in SUBSET HandlerIds : Emit(event_type, raises)

SpecBus == InitBus /\ [][NextBus]_vars

(***************************************************************************)
(* The running system: SoloLevelingSystem._main_loop and stop().  A run    *)
(* starts where start() has launched the main loop, on the morning after   *)
(* a day whose daily quests were left active.  Each action runs one task   *)
(* from one suspension point to the next: the main loop is suspended in    *)
(* the gather of the SYSTEM_TICK handlers, in check_expired_quests or in   *)
(* its sleep; stop() is suspended in the save that follows running = False.*)
(* No analysis result is available, so _run_analysis changes nothing.      *)
(***************************************************************************)
SystemWired ==
    [system_tick |-> <<"BuffEngine._on_tick">>,
     system_stop |-> << >>,
     quest_failed |-> <<"NotificationEngine._on_quest_failed">>,
     notification_push |-> <<"SoloLevelingSystem._on_notification">>]

InitSystem ==
    /\ now = DayMinutes + 9 * 60
    /\ ops = 0
    /\ unlocked = {}
    /\ had_procrastination = FALSE
    /\ gold = 0
    /\ purchased_one_time = {}
    /\ consecutive_fails = 0
    /\ last_check_date = None
    /\ in_penalty_zone = FALSE
    /\ emitted = << >>
    /\ last = NoCall
    /\ fired = << >>
    /\ delivered = << >>
    /\ snapshots = << >>
    /\ pattern_detector = [last_pattern |-> "normal", window_history |-> << >>]
    /\ exp_engine = [focus_streak |-> 0, last_streak_bonus |-> 0, total_passive_exp |-> 0]
    /\ focus_streak = 0
    /\ quests_returned = {}
    /\ army = << >>
    /\ extraction_history = << >>
    /\ hq = HiddenQuestDetector(now)
    /\ \E progress \in SavedProgress : player = SavedPlayer(progress, 50)
    /\ quests = generate_daily_quests(generate_daily_quests(EmptyTable, 9 * 60).quests,
                                      now).quests
    /\ bus = [handlers |-> SystemWired, history |-> << >>, published |-> 0]
    /\ system = [SoloLevelingSystem EXCEPT !.running = TRUE, !.loop = "sleep",
                                           !.db_open = TRUE]
    /\ tasks = NoTasks

\* the events of types, published one after the other
RECURSIVE publish_each(_, _, _)
publish_each(r, types, i) ==
    IF i > Len(types) THEN r
    ELSE LET e == EventBus_emit(r.bus, types[i], {})
         IN  publish_each([bus |-> e.bus, calls |-> r.calls \o e.result.calls],
                          types, i + 1)

SystemStep(op, n, types) ==
    LET r == publish_each([bus |-> bus, calls |-> << >>], types, 1)
    IN  /\ bus' = r.bus
        /\ delivered' = r.calls
        /\ Called(op, "", n, TRUE)
        /\ UNCHANGED <<purchased_one_time, consecutive_fails, last_check_date,
                       in_penalty_zone, army, extraction_history, hq, fired, tasks,
                       activityVars>>

\* the sleep of the main loop ends while running holds: the next turn
\* publishes SYSTEM_TICK and waits for its handlers
LoopTick ==
    /\ system.loop = "sleep"
    /\ system.running
    /\ system.tick_count < MaxTicks
    /\ system' = [system EXCEPT !.tick_count = @ + 1, !.loop = "on_tick"]
    /\ now' = now + (IF system.tick_count > 0 /\ system.tick_count % 6 = 0 THEN 1 ELSE 0)
    /\ SystemStep("loop_tick", system.tick_count + 1, <<"system_tick">>)
    /\ UNCHANGED <<player, unlocked, had_procrastination, gold, emitted, quests>>

\* the sleep of the main loop ends after running was cleared: the loop ends
LoopExit ==
    /\ system.loop = "sleep"
    /\ ~system.running
    /\ system' = [system EXCEPT !.loop = "exited"]
    /\ SystemStep("loop_exit", system.tick_count, << >>)
    /\ UNCHANGED <<now, player, unlocked, had_procrastination, gold, emitted, quests>>

\* BuffEngine._on_tick, in flight since the tick was published, completes
TickHandled ==
    /\ system.loop = "on_tick"
    /\ system' = [system EXCEPT !.loop = IF system.tick_count % 30 = 0
                                         THEN "sweep" ELSE "sleep"]
    /\ Commit(check_expired(Ctx, now))
    /\ SystemStep("tick_handled", system.tick_count, << >>)
    /\ UNCHANGED <<now, quests>>

\* every 30th turn: check_expired_quests; with the database closed its
\* query raises and the loop's except clause swallows the error
CheckExpiredQuests ==
    LET late == IF system.db_open THEN newest_first(overdue(now)) ELSE << >>
    IN  /\ system.loop = "sweep"
        /\ system' = [system EXCEPT !.loop = "sleep"]
        /\ quests' = [q \in DOMAIN quests |->
                        IF InSeq(q, late)
                        THEN [quests[q] EXCEPT !.status = "expired"] ELSE quests[q]]
        /\ emitted' = [i \in DOMAIN late |->
                         [Event("quest_failed", late[i], 0) EXCEPT !.reason = "expired"]]
        /\ SystemStep("check_expired_quests", Len(late),
                      [i \in 1..(2 * Len(late)) |->
                         IF i % 2 = 1 THEN "quest_failed" ELSE "notification_push"])
        /\ UNCHANGED <<now, player, unlocked, had_procrastination, gold>>

\* stop() up to its first suspension: running is cleared, the perception
\* loops are told to stop, the save of the player row is awaited
Stop ==
    /\ system.stop = "idle"
    /\ system' = [system EXCEPT !.running = FALSE, !.stop = "saving"]
    /\ SystemStep("stop", system.tick_count, << >>)
    /\ UNCHANGED <<now, player, unlocked, had_procrastination, gold, emitted, quests>>

\* the rest of stop(): the database is closed and SYSTEM_STOP is published
StopFinish ==
    /\ system.stop = "saving"
    /\ system' = [system EXCEPT !.stop = "stopped", !.db_open = FALSE]
    /\ SystemStep("stop_finish", system.tick_count, <<"system_stop">>)
    /\ UNCHANGED <<now, player, unlocked, had_procrastination, gold, emitted, quests>>

NextSystem ==
    \/ LoopTick
    \/ LoopExit
    \/ TickHandled
    \/ CheckExpiredQuests
    \/ Stop
    \/ StopFinish

SpecSystem == InitSystem /\ [][NextSystem]_vars

(***************************************************************************)
(* The quest engine under the event loop.  Every Database call awaits the  *)
(* aiosqlite thread, so a coroutine is suspended there and the others run: *)
(* each action takes one coroutine from one storage call to the next.  It  *)
(* is the morning of day 1: q_daily is overdue and still active.           *)
(***************************************************************************)
InitConcurrent ==
    /\ now = DayMinutes + 9 * 60
    /\ ops = 0
    /\ player = SavedPlayer(FreshProgress, 50)
    /\ unlocked = {}
    /\ had_procrastination = FALSE
    /\ gold = 0
    /\ purchased_one_time = {}
    /\ consecutive_fails = 0
    /\ last_check_date = None
    /\ in_penalty_zone = FALSE
    /\ quests = SavedQuests
    /\ emitted = << >>
    /\ last = NoCall
    /\ army = << >>
    /\ extraction_history = << >>
    /\ hq = HiddenQuestDetector(now)
    /\ fired = << >>
    /\ bus = EventBus
    /\ delivered = << >>
    /\ system = SoloLevelingSystem
    /\ tasks = NoTasks
    /\ snapshots = << >>
    /\ pattern_detector = [last_pattern |-> "normal", window_history |-> << >>]
    /\ exp_engine = [focus_streak |-> 0, last_streak_bonus |-> 0, total_passive_exp |-> 0]
    /\ focus_streak = 0
    /\ quests_returned = {}

ContendedQuests == {"q_daily", "q_side"}

TaskStep ==
    UNCHANGED <<now, ops, last, purchased_one_time, consecutive_fails, last_check_date,
                in_penalty_zone, army, extraction_history, hq, fired, bus, delivered,
                system, activityVars>>

\* the events of a run accumulate in emitted
TaskCtx == [Ctx EXCEPT !.emitted = emitted]

\* complete_quest or fail_quest up to its first storage await: get_quest
\* answers and the early return is taken or the status is set on the object
GetQuest(task, quest_id) ==
    LET declined == ~has_quest(quest_id) \/ quests[quest_id].status # "active"
    IN  /\ tasks.pc[task] = "idle"
        /\ tasks' = [tasks EXCEPT !.pc[task] = IF declined THEN "done" ELSE "save",
                                  !.quest_id[task] = quest_id,
                                  !.row[task] = IF declined THEN NoRow ELSE quests[quest_id]]
        /\ UNCHANGED <<player, unlocked, had_procrastination, gold, emitted, quests>>
        /\ TaskStep

\* complete_quest: save_quest writes the object with status COMPLETED
SaveCompleted(task) ==
    LET quest_id == tasks.quest_id[task]
        quest == [tasks.row[task] EXCEPT !.status = "completed"]
    IN  /\ tasks.pc[task] = "save"
        /\ quests' = [quests EXCEPT ![quest_id] = quest]
        /\ tasks' = [tasks EXCEPT !.pc[task] = "reward", !.row[task] = quest,
                                  !.saved = Append(@, [id |-> quest_id, by |-> task,
                                                       status |-> "completed"])]
        /\ UNCHANGED <<player, unlocked, had_procrastination, gold, emitted>>
        /\ TaskStep

\* complete_quest after the save: the reward, the counter, QUEST_COMPLETED
RewardCompleted(task) ==
    /\ tasks.pc[task] = "reward"
    /\ Commit(reward_quest(TaskCtx, tasks.quest_id[task], tasks.row[task].exp_reward))
    /\ tasks' = [tasks EXCEPT !.pc[task] = "done", !.returned[task] = TRUE]
    /\ UNCHANGED quests
    /\ TaskStep

\* fail_quest: save_quest writes the object with status FAILED, then
\* QUEST_FAILED is published
SaveFailed(task) ==
    LET quest_id == tasks.quest_id[task]
        quest == [tasks.row[task] EXCEPT !.status = "failed"]
    IN  /\ tasks.pc[task] = "save"
        /\ quests' = [quests EXCEPT ![quest_id] = quest]
        /\ emitted' = Append(emitted, Event("quest_failed", quest_id, 0))
        /\ tasks' = [tasks EXCEPT !.pc[task] = "done", !.returned[task] = TRUE,
                                  !.row[task] = quest,
                                  !.saved = Append(@, [id |-> quest_id, by |-> task,
                                                       status |-> "failed"])]
        /\ UNCHANGED <<player, unlocked, had_procrastination, gold>>
        /\ TaskStep

\* check_expired_quests up to its first save: get_active_quests answers and
\* the loop reaches the first overdue quest of the list
GetActiveQuests ==
    LET active == SelectSeq(QuestScanOrder, LAMBDA q : q \in get_active_quests)
        late == SelectSeq(active, LAMBDA q : q \in overdue(now))
    IN  /\ tasks.pc["tick"] = "idle"
        /\ tasks' = [tasks EXCEPT !.pc["tick"] = IF late = << >> THEN "done" ELSE "save",
                                  !.late = [i \in DOMAIN late |->
                                              [id |-> late[i], row |-> quests[late[i]]]]]
        /\ UNCHANGED <<player, unlocked, had_procrastination, gold, emitted, quests>>
        /\ TaskStep

\* check_expired_quests: save_quest writes the next overdue object of the
\* list with status EXPIRED, QUEST_FAILED is published, the loop goes on
SaveExpired ==
    LET quest_id == Head(tasks.late).id
        quest == [Head(tasks.late).row EXCEPT !.status = "expired"]
    IN  /\ tasks.pc["tick"] = "save"
        /\ quests' = [quests EXCEPT ![quest_id] = quest]
        /\ emitted' = Append(emitted,
                             [Event("quest_failed", quest_id, 0) EXCEPT !.reason = "expired"])
        /\ tasks' = [tasks EXCEPT !.pc["tick"] = IF Len(tasks.late) = 1 THEN "done" ELSE "save",
                                  !.late = Tail(@),
                                  !.saved = Append(@, [id |-> quest_id, by |-> "tick",
                                                       status |-> "expired"])]
        /\ UNCHANGED <<player, unlocked, had_procrastination, gold>>
        /\ TaskStep

NextConcurrent ==
    \/ \E task \in {"http", "ws", "fail"}, quest_id \in ContendedQuests :
          GetQuest(task, quest_id)
    \/ \E task \in {"http", "ws"} : SaveCompleted(task)
    \/ \E task \in {"http", "ws"} : RewardCompleted(task)
    \/ SaveFailed("fail")
    \/ GetActiveQuests
    \/ SaveExpired

SpecConcurrent == InitConcurrent /\ [][NextConcurrent]_vars

(***************************************************************************)
(* Properties.                                                             *)
(***************************************************************************)

\* C1: activate(id) immediately followed by deactivate(id) leaves every stat
\* gauge at exactly its value before the activation, clamped gauges included.
C1_RoundTrip ==
    (last.op = "deactivate" /\ last.roundtrip /\ last.ok)
        => player.stats = last.pre.stats

\* C2: complete(id) on a quest that is absent or not active is declined and
\* leaves the quest statuses, the player's exp, level and
\* total_quests_completed unchanged and publishes no quest_completed event;
\* no call moves a completed quest to another status.
C2_TerminalFinal ==
    [][ /\ \A q \in DOMAIN quests :
              quests[q].status = "completed" => quests'[q].status = "completed"
        /\ ( /\ ops' = ops + 1
             /\ last'.op = "complete_quest"
             /\ \/ last'.arg \notin DOMAIN quests
                \/ quests[last'.arg].status # "active" )
           => /\ ~last'.ok
              /\ quests' = quests
              /\ player'.exp = player.exp
              /\ player'.level = player.level
              /\ player'.total_quests_completed = player.total_quests_completed
              /\ \A i \in DOMAIN emitted' : emitted'[i].type # "quest_completed" ]_vars

C2_Witness ==
    /\ last.op = "complete_quest"
    /\ ~last.ok
    /\ last.arg \in DOMAIN quests
    /\ quests[last.arg].status = "completed"

\* C3: an agent whose status is destroyed keeps that status under every later
\* deploy, recall, execute, report and destroy call.
C3_DestroyedTerminal ==
    [][ \A i \in DOMAIN army :
           army[i].status = "destroyed" => army'[i].status = "destroyed" ]_vars

\* C4: a failure report destroys the agent exactly when the resulting loyalty
\* is at most 0.2; a failure report leaving loyalty above 0.2 and every
\* success report leave the status alone; loyalty stays within 0.1 .. 1.0.
C4_LoyaltyCollapse ==
    [][ /\ \A i \in DOMAIN army' :
              army'[i].loyalty >= LoyaltyFloor /\ army'[i].loyalty <= LoyaltyFull
        /\ (ops' = ops + 1 /\ last'.op = "report" /\ last'.n \in DOMAIN army)
           => LET before == army[last'.n]
                  after == army'[last'.n]
              IN  /\ last'.ok => after.status = before.status
                  /\ (~last'.ok /\ after.loyalty <= LoyaltyCollapse)
                        => after.status = "destroyed"
                  /\ (~last'.ok /\ after.loyalty > LoyaltyCollapse)
                        => after.status = before.status ]_vars

C4_Witness ==
    /\ last.op = "report"
    /\ ~last.ok
    /\ last.n \in DOMAIN army
    /\ army[last.n].loyalty = LoyaltyCollapse
    /\ army[last.n].failed_executions = 16
    /\ army[last.n].status = "destroyed"

\* C5: for every agent, successful_executions + failed_executions never
\* exceeds total_executions, whatever the order of execute and report calls.
C5_ExecutionCounters ==
    \A i \in DOMAIN army :
        army[i].successful_executions + army[i].failed_executions
            <= army[i].total_executions

\* C6: extract at a rank whose count of non-destroyed agents equals the
\* rank's cap, with a sufficient player level, fails with a capacity error,
\* adds no agent and leaves the count at the cap.
C6_CapacityDecline ==
    [][ ( /\ ops' = ops + 1
          /\ last'.op = "extract"
          /\ last'.n >= RANK_REQUIRED_LEVELS[last'.arg]
          /\ current_count(army, last'.arg) = RANK_ARMY_LIMITS[last'.arg] )
        => /\ ~last'.ok
           /\ last'.error = "capacity"
           /\ army' = army
           /\ current_count(army', last'.arg) = RANK_ARMY_LIMITS[last'.arg] ]_vars

C6_Witness ==
    /\ last.op = "extract"
    /\ last.error = "capacity"
    /\ last.arg = "knight"
    /\ Len(army) = 5
    /\ current_count(army, "knight") = 5

\* C7: a non-repeatable trigger is returned by at most one check_triggers
\* call; when its predicate depends on the arguments and the clock alone, it
\* is returned exactly by the first call on which the predicate holds.
C7_FireOnce ==
    \A i \in DOMAIN HIDDEN_QUESTS :
        LET quest == HIDDEN_QUESTS[i]
            returned(k) == InSeq(quest.id, fired[k].ids)
            holds(k) == should_trigger(hq, quest, fired[k].args, fired[k].t, FALSE)
        IN  ~quest.repeatable =>
              \A k \in DOMAIN fired :
                 /\ returned(k) => \A j \in 1..(k - 1) : ~returned(j)
                 /\ quest.trigger.type \in {"milestone", "time_activity"}
                       => (returned(k) <=> (holds(k) /\ \A j \in 1..(k - 1) : ~holds(j)))

C7_Witness ==
    /\ Len(fired) >= 3
    /\ \A k \in 1..3 : fired[k].args.quests_completed >= 1
    /\ InSeq("first_blood", fired[1].ids)
    /\ ~InSeq("first_blood", fired[2].ids)
    /\ ~InSeq("first_blood", fired[3].ids)

\* C8: a repeatable trigger with a 48-hour cooldown returned by a call at
\* time T is returned by no call made before T + 48h.
C8_Cooldown ==
    \A i \in DOMAIN HIDDEN_QUESTS :
        LET quest == HIDDEN_QUESTS[i]
        IN  (quest.repeatable /\ quest.cooldown_hours = 48) =>
              \A j, k \in DOMAIN fired :
                 ( /\ j < k
                   /\ InSeq(quest.id, fired[j].ids)
                   /\ fired[k].t < fired[j].t + 48 * 60 )
                 => ~InSeq(quest.id, fired[k].ids)

\* coding throughout: marathon_coder is returned at T, withheld a day later
\* and returned again at T + 48h
C8_Witness ==
    /\ Len(fired) = 4
    /\ \A k \in 1..4 : fired[k].args.current_category = "coding"
    /\ InSeq("marathon_coder", fired[2].ids)
    /\ ~InSeq("marathon_coder", fired[3].ids)
    /\ fired[3].t < fired[2].t + 48 * 60
    /\ InSeq("marathon_coder", fired[4].ids)
    /\ fired[4].t = fired[2].t + 48 * 60

\* C9: gain_exp consumes thresholds level by level: the experience added
\* during the call equals the thresholds consumed plus the change in exp, and
\* 250 experience at level 1, exp 0, without a multiplier gives level 2, exp 150.
C9_LevelUpArithmetic ==
    last.op = "gain_exp" =>
        LET RECURSIVE added(_), consumed(_)
            added(i) == IF i = 0 THEN 0
                        ELSE added(i - 1) +
                             (IF emitted[i].type = "exp_gained" THEN emitted[i].n ELSE 0)
            consumed(level) == IF level >= player.level THEN 0
                               ELSE exp_for_level(level) + consumed(level + 1)
        IN  /\ player.level >= last.pre.level
            /\ added(Len(emitted)) = consumed(last.pre.level) + player.exp - last.pre.exp
            /\ player.exp >= 0
            /\ player.exp < exp_for_level(player.level)
            /\ ( /\ last.n = 250
                 /\ last.pre.level = 1
                 /\ last.pre.exp = 0
                 /\ last.pre.mult = << >> )
               => (player.level = 2 /\ player.exp = 150)

C9_Witness ==
    /\ last.op = "gain_exp"
    /\ last.n = 250
    /\ last.pre.level = 1
    /\ last.pre.exp = 0
    /\ last.pre.mult = << >>
    /\ player.level = 2
    /\ player.exp = 150

\* C10: every stat gauge stays within 0 .. 100 and exp stays at or above 0
\* under effect activations and deactivations, sweeps, experience gains,
\* penalties and purchases.
C10_GaugeBounds ==
    /\ \A i \in DOMAIN StatNames :
          player.stats[StatNames[i]] >= 0 /\ player.stats[StatNames[i]] <= 100
    /\ player.exp >= 0

\* a gauge at 95 raised by 20 and held at 100
C10_Witness ==
    /\ last.op = "activate"
    /\ last.ok
    /\ last.arg = "focus_zone"
    /\ last.pre.stats.focus = 95
    /\ player.stats.focus = 100


\* C11: whenever a gain_exp call, a quest completion or a penalty evaluation
\* has returned, level >= 1 and 0 <= exp < threshold(level), also when
\* achievements unlocked on a level-up grant experience inside the cascade.
C11_LevelExpConsistency ==
    last.op \in {"gain_exp", "complete_quest", "check_daily"} =>
        /\ player.level >= 1
        /\ player.exp >= 0
        /\ player.exp < exp_for_level(player.level)

\* a gain that crosses level 5: the level_5 reward is granted inside the loop
C11_Witness ==
    /\ last.op = "gain_exp"
    /\ last.pre.level < 5
    /\ player.level >= 5
    /\ \E i, j \in DOMAIN emitted :
          /\ i < j
          /\ emitted[i].type = "level_up" /\ emitted[i].n = 5
          /\ emitted[j].type = "exp_gained" /\ emitted[j].id = "achievement"


\* C12: an emit calls every handler subscribed to the event's type exactly
\* once per subscription, with the emitted event, also when handlers raise;
\* the raise does not reach the publisher, and handlers subscribed only to
\* other types are not called.
C12_FaultIsolation ==
    [][ (ops' = ops + 1 /\ last'.op = "emit") =>
          LET subscribed == bus.handlers[last'.arg]
              calls(h) == {i \in DOMAIN delivered' : delivered'[i].handler = h}
              subscriptions(h) == {i \in DOMAIN subscribed : subscribed[i] = h}
          IN  /\ last'.ok
              /\ \A h \in HandlerIds :
                    Cardinality(calls(h)) = Cardinality(subscriptions(h))
              /\ \A i \in DOMAIN delivered' :
                    /\ delivered'[i].event = BusEvent(last'.arg, last'.n)
                    /\ delivered'[i].event = bus'.history[Len(bus'.history)] ]_vars

\* h1 raises on quest_completed: h2 is still called, h1 was called once
C12_Witness ==
    /\ last.op = "emit"
    /\ last.arg = "quest_completed"
    /\ last.ok
    /\ Len(delivered) = 2
    /\ delivered[1].handler = "h1" /\ delivered[1].raised
    /\ delivered[2].handler = "h2" /\ ~delivered[2].raised
    /\ InSeq("h2", bus.handlers["level_up"])

\* C13: the history never holds more than max_history events and consists
\* of the most recent min(max_history, published) events in publish order;
\* an event is recorded also when no handler is subscribed to its type.
C13_BoundedHistory ==
    LET held == Len(bus.history)
    IN  /\ held <= max_history
        /\ held = Min(max_history, bus.published)
        /\ \A i \in DOMAIN bus.history :
              bus.history[i].seq = bus.published - held + i
        /\ (last.op = "emit" /\ delivered = << >>) =>
              bus.history[held] = BusEvent(last.arg, last.n)

\* two events beyond the capacity, the last one without a handler
C13_Witness ==
    /\ bus.published = max_history + 2
    /\ Len(bus.history) = max_history
    /\ bus.history[1].seq = 3
    /\ last.op = "emit"
    /\ delivered = << >>



\* C14: after three consecutive records with category coding and focus 0.9,
\* each stored, published and followed by pattern detection, on a new
\* engine: the detector reports deep_focus, focus_zone is in the active
\* effects exactly once, the streak counter of the ExpEngine is 3 and the
\* bonus of threshold 3 has been granted exactly once.
C14_EndToEnd ==
    (/\ ops = 3
     /\ Len(snapshots) = 3
     /\ \A i \in DOMAIN snapshots :
           snapshots[i].activity_category = "coding" /\ snapshots[i].focus_score = 90)
    => /\ last.op = "simulate"
       /\ last.arg = "deep_focus"
       /\ pattern_detector.last_pattern = "deep_focus"
       /\ Cardinality({i \in DOMAIN player.active_buffs :
                          player.active_buffs[i].id = "focus_zone"}) = 1
       /\ exp_engine.focus_streak = 3
       /\ exp_engine.last_streak_bonus = 3
       /\ exp_engine.total_passive_exp = 3 * passive_exp("coding", 90) + 5
       /\ Cardinality({i \in DOMAIN emitted :
                          emitted[i].type = "notification_push"
                          /\ emitted[i].id = "focus_streak" /\ emitted[i].n = 5}) = 1

C14_Witness ==
    /\ ops = 3
    /\ Len(snapshots) = 3
    /\ \A i \in DOMAIN snapshots :
          snapshots[i].activity_category = "coding" /\ snapshots[i].focus_score = 90
    /\ last.arg = "deep_focus"
    /\ player.level = 1
    /\ exp_engine.last_streak_bonus = 3

\* C15: within one calendar day the daily templates are instantiated by at
\* most one generate_daily_quests call: a call made when daily quests of the
\* day already exist, in whatever status, creates no quest and returns the
\* daily quests of that day.
C15_DailyIdempotent ==
    [][ (ops' = ops + 1 /\ last'.op = "generate_daily") =>
          LET today == {q \in DOMAIN quests : is_daily_of(quests, q, DateOf(now))}
          IN  today # {} =>
                 /\ quests' = quests
                 /\ emitted' = << >>
                 /\ quests_returned' = today ]_vars

\* C16: handling one MOTIVE_INFERRED event creates at most two quests, and a
\* count of active quests of at most ten before the event is at most ten
\* after it.
C16_SuggestionCap ==
    [][ (ops' = ops + 1 /\ last'.op = "motive_inferred") =>
          /\ Cardinality(DOMAIN quests') - Cardinality(DOMAIN quests) <= 2
          /\ Cardinality(active_in(quests)) <= 10
                => Cardinality(active_in(quests')) <= 10 ]_vars

\* C17: create_quest_from_ai returns None, stores no quest and publishes no
\* event when a pending or active quest has the suggestion's title; no two
\* pending or active quests created from suggestions share a title.
C17_DuplicateTitle ==
    [][ /\ (ops' = ops + 1 /\ last'.op = "create_quest"
              /\ \E q \in active_in(quests) : quests[q].title = last'.arg)
           => /\ ~last'.ok
              /\ quests_returned' = {}
              /\ quests' = quests
              /\ emitted' = << >>
        /\ \A q1, q2 \in active_in(quests') :
              (q1.kind = "auto" /\ q2.kind = "auto" /\ q1 # q2)
                 => quests'[q1].title # quests'[q2].title ]_vars

\* the emergency quest is suggested a second time while the first is active
C17_Witness ==
    /\ last.op = "create_quest"
    /\ last.arg = "overcome_inertia"
    /\ ~last.ok
    /\ Cardinality({q \in active_in(quests) : quests[q].title = "overcome_inertia"}) = 1



\* C18: activate_buff of an effect that is already active leaves the player
\* (the active list, the effect's expires_at, every gauge) unchanged and
\* publishes nothing; after any call the active list holds at most one
\* effect per id.
C18_NoDoubleApplication ==
    [][ /\ (ops' = ops + 1 /\ last'.op = "activate" /\ IsActive(player, last'.arg))
           => (player' = player /\ emitted' = << >>)
        /\ \A i, j \in DOMAIN player'.active_buffs :
              player'.active_buffs[i].id = player'.active_buffs[j].id => i = j ]_vars

\* a timed effect is activated again after time has passed: its expires_at
\* still is the one of the first activation
C18_Witness ==
    /\ last.op = "activate"
    /\ ~last.ok
    /\ \E i \in DOMAIN player.active_buffs :
          /\ player.active_buffs[i].id = last.arg
          /\ player.active_buffs[i].expires_at # None
          /\ player.active_buffs[i].expires_at < now + BUFF_DEFINITIONS[last.arg].duration_minutes

\* C19: when the sweep of a tick at time t has returned, no active effect has
\* an expires_at at or before t; the effects it removed are those of the
\* former list with such an expires_at, each has published one expiry event
\* and had the negation of each of its stat deltas applied once, in list
\* order; every other effect is still in the list, unchanged, and no other
\* change was made to the gauges.
C19_ExpirySweep ==
    [][ (ops' = ops + 1 /\ last'.op \in {"tick", "expiry_tick"}) =>
          LET t == now'
              before == player.active_buffs
              after == player'.active_buffs
              removed == SelectSeq(before, LAMBDA b : b.expires_at # None /\ b.expires_at <= t)
              kept == SelectSeq(before, LAMBDA b : b.expires_at = None \/ b.expires_at > t)
              reverted[i \in 0..Len(removed)] ==
                  IF i = 0 THEN player.stats
                  ELSE apply_effects(reverted[i - 1],
                                     BUFF_DEFINITIONS[removed[i].id].effects, -1, 1)
              expiries == SelectSeq(emitted', LAMBDA e : e.type \in {"buff_expired", "debuff_expired"})
          IN  /\ \A i \in DOMAIN after :
                    after[i].expires_at = None \/ after[i].expires_at > t
              /\ after = kept
              /\ player'.stats = reverted[Len(removed)]
              /\ Len(expiries) = Len(removed)
              /\ \A i \in DOMAIN removed : expiries[i].id = removed[i].id ]_vars

\* the sweep runs at the very minute a debuff expires, while an effect
\* without expires_at is active
C19_Witness ==
    /\ last.op = "tick"
    /\ \E i \in DOMAIN emitted : emitted[i].type = "debuff_expired"
    /\ \E i \in DOMAIN player.active_buffs : player.active_buffs[i].expires_at = None
    /\ \A i \in DOMAIN player.active_buffs : player.active_buffs[i].expires_at = None
    /\ last.pre.stats # player.stats

\* C20: whatever call is made (events of quests, levels, effects, patterns
\* and activity records, and the explicit checks), the set of unlocked
\* achievements loses no member, an achievement that was unlocked before the
\* call gets no notification, an achievement the call unlocks gets exactly
\* one, and experience is granted once per newly unlocked achievement that
\* has a reward: no reward and no notification is ever given twice.
C20_UnlockOnce ==
    [][ LET notes(a) == {i \in DOMAIN emitted' :
                            emitted'[i].type = "notification_push" /\ emitted'[i].id = a}
            grants == {i \in DOMAIN emitted' :
                          emitted'[i].type = "exp_gained" /\ emitted'[i].id = "achievement"}
            new == unlocked' \ unlocked
        IN  /\ unlocked \subseteq unlocked'
            /\ \A a \in DOMAIN ACHIEVEMENTS :
                  Cardinality(notes(a)) = IF a \in new THEN 1 ELSE 0
            /\ Cardinality(grants) = Cardinality({a \in new : ACHIEVEMENTS[a] > 0}) ]_vars

\* focus_zone is activated a second time: BUFF_ACTIVATED reaches _unlock for
\* focus_30min, which is unlocked already, and nothing is published for it
C20_Witness ==
    /\ last.op = "simulate"
    /\ "focus_30min" \in unlocked
    /\ \E i \in DOMAIN emitted :
          emitted[i].type = "buff_activated" /\ emitted[i].id = "focus_zone"
    /\ \A i \in DOMAIN emitted :
          ~(emitted[i].type = "notification_push" /\ emitted[i].id = "focus_30min")

\* C21: a check_daily_completion call made on the date of the previous
\* evaluation, whatever its completed_today argument, returns no penalty
\* and leaves the failure streak, the penalty status, the player's exp and
\* stat gauges unchanged; it publishes nothing.
C21_OncePerDay ==
    [][ (ops' = ops + 1 /\ last'.op = "check_daily" /\ DateOf(now') = last_check_date)
        => /\ ~last'.ok
           /\ consecutive_fails' = consecutive_fails
           /\ in_penalty_zone' = in_penalty_zone
           /\ last_check_date' = last_check_date
           /\ player'.exp = player.exp
           /\ player'.stats = player.stats
           /\ emitted' = << >> ]_vars

\* the third failed day has been penalised and the call of the same date
\* that followed it returned at once
C21_Witness ==
    /\ last.op = "check_daily"
    /\ last.arg = "same_day"
    /\ consecutive_fails = 3
    /\ in_penalty_zone
    /\ last_check_date = DateOf(now)

\* C22: the first evaluation of a date with completed_today true sets the
\* failure streak to 0 and clears the penalty status; with completed_today
\* false it increases the streak by exactly 1 and applies the rung with the
\* greatest threshold (1, 2, 3, 5) not above the new streak: exp is reduced
\* by the rung's penalty and floored at 0, the gauges move by the rung's
\* deltas within 0..100, and the level does not change.
C22_PenaltyLadder ==
    [][ LET streak == consecutive_fails + 1
            threshold == IF streak >= 5 THEN 5 ELSE IF streak >= 3 THEN 3 ELSE streak
            exp_penalty == CASE threshold = 5 -> 200 [] threshold = 3 -> 50 [] OTHER -> 0
            delta == CASE threshold = 5 -> [focus |-> -20, productivity |-> -20,
                                            consistency |-> -15, creativity |-> 0,
                                            wellness |-> -10]
                       [] threshold = 3 -> [focus |-> -10, productivity |-> -10,
                                            consistency |-> 0, creativity |-> 0,
                                            wellness |-> -5]
                       [] OTHER -> [focus |-> 0, productivity |-> 0, consistency |-> 0,
                                    creativity |-> 0, wellness |-> 0]
        IN  (ops' = ops + 1 /\ last'.op = "check_daily" /\ DateOf(now') # last_check_date)
            => /\ last'.arg \in {"completed", "penalty"}
               /\ player'.level = player.level
               /\ last'.arg = "completed"
                    => /\ consecutive_fails' = 0
                       /\ ~in_penalty_zone'
                       /\ ~last'.ok
                       /\ player' = player
               /\ last'.arg = "penalty"
                    => /\ consecutive_fails' = streak
                       /\ in_penalty_zone'
                       /\ last'.ok
                       /\ last'.n = threshold
                       /\ player'.exp = IF player.exp >= exp_penalty
                                        THEN player.exp - exp_penalty ELSE 0
                       /\ \A stat \in DOMAIN delta :
                             player'.stats[stat] =
                                 IF player.stats[stat] + delta[stat] < 0 THEN 0
                                 ELSE player.stats[stat] + delta[stat] ]_vars

\* the fourth failed day in a row: rung 3 is applied again, 50 exp is lost
C22_Witness ==
    /\ last.op = "check_daily"
    /\ last.arg = "penalty"
    /\ consecutive_fails = 4
    /\ last.n = 3
    /\ last.pre.exp = 600
    /\ player.exp = 550

\* C23: a detect() call publishes PATTERN_DETECTED at most once, only when
\* the pattern it classified differs from the pattern recorded by the
\* previous classification (normal at the start), and the event carries the
\* newly classified pattern, which becomes the recorded one; a call that
\* classifies the recorded pattern again publishes nothing.
C23_PatternOnTransition ==
    [][ LET published == {i \in DOMAIN emitted' : emitted'[i].type = "pattern_detected"}
        IN  (ops' = ops + 1 /\ last'.op = "simulate")
            => /\ Cardinality(published) <= 1
               /\ \A i \in published :
                     /\ emitted'[i].id = last'.arg
                     /\ last'.arg # pattern_detector.last_pattern
                     /\ pattern_detector'.last_pattern = last'.arg
               /\ last'.arg = pattern_detector.last_pattern => published = {} ]_vars

\* the learning pattern is classified by a call that publishes nothing: it
\* was classified, and published, by an earlier call
C23_Witness ==
    /\ last.op = "simulate"
    /\ last.arg = "learning"
    /\ pattern_detector.last_pattern = "learning"
    /\ Len(snapshots) >= 3
    /\ \A i \in DOMAIN emitted : emitted[i].type # "pattern_detected"

\* C24: check_expired_quests sets to expired exactly the pending or active
\* quests whose deadline is earlier than the current time and publishes one
\* QUEST_FAILED event with reason "expired" for each of them; a quest with
\* no deadline, with a deadline that has not passed or in a terminal state
\* is left unchanged and gets no event, and no quest appears or disappears.
C24_QuestExpiry ==
    [][ LET due(q) == /\ quests[q].status \in {"pending", "active"}
                      /\ quests[q].deadline # None
                      /\ quests[q].deadline < now'
            failures(q) == {i \in DOMAIN emitted' :
                               emitted'[i].type = "quest_failed" /\ emitted'[i].id = q}
        IN  (ops' = ops + 1 /\ last'.op = "expiry_tick")
            => /\ DOMAIN quests' = DOMAIN quests
               /\ \A q \in DOMAIN quests :
                     IF due(q)
                     THEN /\ quests'[q] = [quests[q] EXCEPT !.status = "expired"]
                          /\ Cardinality(failures(q)) = 1
                          /\ \A i \in failures(q) : emitted'[i].reason = "expired"
                     ELSE /\ quests'[q] = quests[q]
                          /\ failures(q) = {} ]_vars

\* a day has passed: the active daily quest has expired with its event, the
\* completed daily quests of the same deadline stay completed, and a
\* suggested quest, which has no deadline, stays active
C24_Witness ==
    /\ last.op = "expiry_tick"
    /\ \E q \in DOMAIN quests :
          /\ quests[q].status = "expired"
          /\ \E i \in DOMAIN emitted :
                emitted[i].type = "quest_failed" /\ emitted[i].id = q
                /\ emitted[i].reason = "expired"
    /\ \E q \in DOMAIN quests :
          quests[q].status = "completed" /\ quests[q].deadline # None
          /\ quests[q].deadline < now
    /\ \E q \in DOMAIN quests : quests[q].status = "active" /\ quests[q].deadline = None

\* C25: extract_shadow with a player level below the level the requested
\* rank requires returns a failure with a level error and leaves the army
\* and the extraction history unchanged; with a sufficient level and free
\* capacity it adds exactly one soldier, of the requested rank, dormant, of
\* level 1 and full loyalty, and one history entry.
C25_LevelGate ==
    [][ LET rank == last'.arg
            player_level == last'.n
        IN  (ops' = ops + 1 /\ last'.op = "extract")
            => /\ player_level < RANK_REQUIRED_LEVELS[rank]
                    => /\ ~last'.ok
                       /\ last'.error = "level"
                       /\ army' = army
                       /\ extraction_history' = extraction_history
                       /\ emitted' = << >>
               /\ ( /\ player_level >= RANK_REQUIRED_LEVELS[rank]
                    /\ current_count(army, rank) < RANK_ARMY_LIMITS[rank] )
                    => /\ last'.ok
                       /\ Len(army') = Len(army) + 1
                       /\ SubSeq(army', 1, Len(army)) = army
                       /\ army'[Len(army')].rank = rank
                       /\ army'[Len(army')].status = "dormant"
                       /\ army'[Len(army')].level = 1
                       /\ army'[Len(army')].loyalty = LoyaltyFull
                       /\ extraction_history' = Append(extraction_history, rank) ]_vars

\* a monarch is requested at level 39 and declined, in an army that holds an
\* elite soldier extracted earlier at the same level
C25_Witness ==
    /\ last.op = "extract"
    /\ last.arg = "monarch"
    /\ last.n = 39
    /\ last.error = "level"
    /\ \E i \in DOMAIN army : army[i].rank = "elite" /\ army[i].status = "dormant"
    /\ Len(extraction_history) = Len(army)

\* C26: once stop() has cleared running, no SYSTEM_TICK is published any
\* more and no handler is invoked for an event published from then on.
C26_Shutdown ==
    [][ ~system.running
        => /\ \A i \in DOMAIN bus'.history :
                 (bus'.history[i].seq > bus.published)
                     => bus'.history[i].type # "system_tick"
           /\ bus'.published > bus.published => delivered' = << >> ]_vars

\* C27: when complete_quest succeeds on a quest of difficulty S, the
\* QUEST_COMPLETED event it publishes makes the AchievementEngine unlock
\* s_rank_quest; completing a quest of a lower difficulty does not unlock it.
C27_SRankAchievement ==
    [][ (ops' = ops + 1 /\ last'.op = "complete_quest" /\ last'.ok)
        => IF quests[last'.arg].difficulty = "S"
           THEN "s_rank_quest" \in unlocked'
           ELSE "s_rank_quest" \in unlocked' => "s_rank_quest" \in unlocked ]_vars

\* C28: for each random trigger, two calls of check_triggers that both call
\* random.random() for it are at least its check interval apart (30 minutes
\* for system_gift, 60 for secret_double_exp), whatever the schedule of the
\* calls; a call in which the trigger is not drawn for does not return it.
C28_RandomRateLimit ==
    \A i \in DOMAIN HIDDEN_QUESTS :
        LET quest == HIDDEN_QUESTS[i]
            interval == CASE quest.id = "system_gift" -> 30
                          [] quest.id = "secret_double_exp" -> 60
                          [] OTHER -> 0
        IN  quest.trigger.type = "random"
            => /\ interval > 0
               /\ \A k \in DOMAIN fired :
                     /\ InSeq(quest.id, fired[k].ids) => quest.id \in fired[k].drawn
                     /\ \A j \in 1..(k - 1) :
                           (quest.id \in fired[j].drawn /\ fired[k].t - fired[j].t < interval)
                               => /\ quest.id \notin fired[k].drawn
                                  /\ ~InSeq(quest.id, fired[k].ids)

\* system_gift has fired and cools down; secret_double_exp is drawn for in
\* the second call and, 20 minutes later, not in the third
C28_Witness ==
    /\ Len(fired) = 3
    /\ InSeq("system_gift", fired[1].ids)
    /\ "secret_double_exp" \in fired[2].drawn
    /\ fired[3].t - fired[2].t = 20
    /\ "secret_double_exp" \notin fired[3].drawn
    /\ fired[3].ids = << >>


\* C29: a check_triggers call with pattern deep_focus, made when the last
\* recorded pattern is PatternType.DISTRACTION and comeback_king is not
\* skipped, returns comeback_king; with any other last pattern it does not.
C29_Comeback ==
    [][ (Len(fired') = Len(fired) + 1 /\ fired'[Len(fired')].args.pattern_type = "deep_focus")
        => \A i \in DOMAIN HIDDEN_QUESTS :
              LET quest == HIDDEN_QUESTS[i]
                  call == fired'[Len(fired')]
              IN  quest.id = "comeback_king"
                  => IF hq.last_pattern = "distraction" /\ ~skipped(hq, quest, call.t)
                     THEN InSeq(quest.id, call.ids)
                     ELSE ~InSeq(quest.id, call.ids) ]_vars

\* C30: over the check_triggers calls of one calendar date the day streak
\* grows by at most 1, and it grows only in a call whose daily_all_done holds.
C30_DayStreak ==
    LET before(k) == IF k = 1 THEN 0 ELSE fired[k - 1].streak_days
    IN  \A k \in DOMAIN fired :
           /\ fired[k].streak_days >= before(k)
           /\ fired[k].streak_days > before(k) => fired[k].args.daily_all_done
           /\ \A j \in 1..k :
                 DateOf(fired[j].t) = DateOf(fired[k].t)
                     => fired[k].streak_days - before(j) <= 1

\* three calls on one date with the daily quests done: the streak is 1 after
\* each of them
C30_Witness ==
    /\ Len(fired) = 3
    /\ \A k \in 1..3 : /\ fired[k].args.daily_all_done
                       /\ DateOf(fired[k].t) = DateOf(fired[1].t)
                       /\ fired[k].streak_days = 1


\* C31: a gain_exp call publishes one LEVEL_UP event per level gained, the
\* new_level of consecutive events rising by 1 from the level before the
\* call, and it ends with exp below the threshold of the level reached,
\* also when _on_level_up grants experience through nested gain_exp calls;
\* no achievement is granted twice.
C31_LevelUpCascade ==
    last.op = "gain_exp" =>
        LET ups == SelectSeq(emitted, LAMBDA ev : ev.type = "level_up")
            grants == SelectSeq(emitted, LAMBDA ev : ev.type = "notification_push")
        IN  /\ Len(ups) = player.level - last.pre.level
            /\ \A i \in DOMAIN ups : ups[i].n = last.pre.level + i
            /\ player.exp >= 0
            /\ player.exp < exp_for_level(player.level)
            /\ \A i, j \in DOMAIN grants : grants[i].id = grants[j].id => i = j

\* 1100 at level 4, exp 650: level 5 is reached with exp 1050, level_5 grants
\* 80 inside the LEVEL_UP handler and the nested call reaches level 6 before
\* the achievement is announced
C31_Witness ==
    /\ last.op = "gain_exp"
    /\ last.pre.level = 4
    /\ player.level = 6
    /\ \E i, j, k \in DOMAIN emitted :
          /\ i < j /\ j < k
          /\ emitted[i].type = "exp_gained" /\ emitted[i].id = "achievement"
          /\ emitted[j].type = "level_up" /\ emitted[j].n = 6
          /\ emitted[k].type = "notification_push" /\ emitted[k].id = "level_5"


\* C32: of the complete_quest calls from the HTTP endpoint and from the
\* WebSocket on the same active quest, whatever their interleaving, one
\* succeeds: QUEST_COMPLETED is published once for the quest, the reward is
\* granted once and total_quests_completed counts the quest once.
C32_ConcurrentCompletion ==
    LET succeeded(q) == {t \in {"http", "ws"} : tasks.quest_id[t] = q /\ tasks.returned[t]}
        completions(q) == SelectSeq(emitted, LAMBDA ev : ev.type = "quest_completed"
                                                         /\ ev.id = q)
        rewards == SelectSeq(emitted, LAMBDA ev : ev.type = "exp_gained" /\ ev.id = "quest")
        completed == {q \in DOMAIN quests : succeeded(q) # {}}
    IN  /\ \A q \in DOMAIN quests : /\ Cardinality(succeeded(q)) <= 1
                                    /\ Len(completions(q)) <= 1
        /\ Len(rewards) <= Cardinality(DOMAIN quests)
        /\ player.total_quests_completed = Cardinality(completed)

\* C33: for every interleaving of check_expired_quests with complete_quest
\* and fail_quest, a quest that check_expired_quests stores as expired is
\* stored in a terminal state by no other call, before or after; a quest
\* saved as completed is never afterwards saved as expired.
C33_SingleTerminal ==
    \A i, j \in DOMAIN tasks.saved :
        (i < j /\ tasks.saved[i].id = tasks.saved[j].id)
            => /\ tasks.saved[i].by # "tick"
               /\ tasks.saved[j].by # "tick"


\* C34: after any sequence of extract, deploy, recall, destroy, execute and
\* report calls the number of non-destroyed soldiers of each rank is at most
\* the rank's limit.
C34_Capacity ==
    \A i \in DOMAIN Ranks : current_count(army, Ranks[i]) <= RANK_ARMY_LIMITS[Ranks[i]]


\* C35: a streak trigger with streak_days = n is returned by a
\* check_triggers call only if daily_all_done held in a call on each of the
\* n consecutive calendar dates that end with the date of the call.
C35_ConsecutiveDays ==
    \A i \in DOMAIN HIDDEN_QUESTS :
        LET quest == HIDDEN_QUESTS[i]
            qualified(d, k) == \E j \in 1..k : /\ DateOf(fired[j].t) = d
                                               /\ fired[j].args.daily_all_done
        IN  quest.trigger.type = "streak"
            => \A k \in DOMAIN fired :
                  InSeq(quest.id, fired[k].ids)
                      => \A d \in (DateOf(fired[k].t) - quest.trigger.streak_days + 1)
                                  .. DateOf(fired[k].t) : qualified(d, k)


\* C36: a check_triggers call made when a random trigger is not skipped and
\* at least its check interval has passed since the last call that drew for
\* it (since the construction of the detector when there is none) draws for it.
C36_NoStarvation ==
    \A i \in DOMAIN HIDDEN_QUESTS :
        LET quest == HIDDEN_QUESTS[i]
            constructed == 9 * 60
            drew(k) == {fired[j].t : j \in {j \in 1..(k - 1) : quest.id \in fired[j].drawn}}
            own_last(k) == IF drew(k) = {} THEN constructed
                           ELSE CHOOSE t \in drew(k) : \A u \in drew(k) : u <= t
            cooling(k) == \E j \in 1..(k - 1) :
                             /\ InSeq(quest.id, fired[j].ids)
                             /\ \/ ~quest.repeatable
                                \/ fired[k].t < fired[j].t + quest.cooldown_hours * 60
        IN  quest.trigger.type = "random"
            => \A k \in DOMAIN fired :
                  (~cooling(k) /\ fired[k].t - own_last(k) >= quest.trigger.check_interval_minutes)
                      => quest.id \in fired[k].drawn


\* C37: detect returns creative only when at least 2 of the recent records
\* carry a category and at least half of those categories are writing or
\* creative; a window without a category, or without a writing or creative
\* category, is never classified creative.
C37_Creative ==
    (last.op = "simulate" /\ last.arg = "creative") =>
        LET recent == get_recent_snapshots(snapshots, 10)
            categories == SelectSeq([i \in DOMAIN recent |-> recent[i].activity_category],
                                    LAMBDA x : x # "")
            creative == SelectSeq(categories, LAMBDA x : x \in {"writing", "creative"})
        IN  /\ Len(categories) >= 2
            /\ 2 * Len(creative) >= Len(categories)
            /\ Len(creative) >= 1


\* C38: a record awards at most one streak bonus, that of a threshold above
\* the last threshold rewarded, which the streak has reached and which
\* becomes the last threshold rewarded; without an award the marker stays,
\* so it never decreases, no threshold is rewarded twice and thresholds are
\* rewarded in ascending order; the focus streak is never negative.
C38_StreakBonusOnce ==
    [][ ops' = ops + 1 =>
          LET awards == SelectSeq(emitted', LAMBDA ev : ev.type = "notification_push"
                                                        /\ ev.id = "focus_streak")
          IN  /\ exp_engine'.focus_streak >= 0
              /\ exp_engine'.last_streak_bonus >= exp_engine.last_streak_bonus
              /\ Len(awards) <= 1
              /\ Len(awards) = 0 => exp_engine'.last_streak_bonus = exp_engine.last_streak_bonus
              /\ Len(awards) = 1 =>
                    \E j \in DOMAIN FOCUS_STREAK_BONUSES :
                       /\ awards[1].n = FOCUS_STREAK_BONUSES[j][2]
                       /\ FOCUS_STREAK_BONUSES[j][1] \in {3, 6, 10, 15}
                       /\ FOCUS_STREAK_BONUSES[j][1] > exp_engine.last_streak_bonus
                       /\ FOCUS_STREAK_BONUSES[j][1] = exp_engine'.last_streak_bonus
                       /\ exp_engine'.focus_streak >= FOCUS_STREAK_BONUSES[j][1] ]_vars

\* the streak reached 3 and was rewarded, fell to 2 and has climbed to 3
\* again without a second bonus
C38_Witness ==
    /\ Len(snapshots) = 5
    /\ \A i \in {1, 2, 3, 5} : snapshots[i].activity_category = "coding"
    /\ snapshots[4].activity_category = "learning"
    /\ exp_engine.focus_streak = 3
    /\ exp_engine.last_streak_bonus = 3
    /\ ~\E i \in DOMAIN emitted : emitted[i].id = "focus_streak"


\* C39: for a soldier created by extract_shadow, after every
\* report_execution_result call 0 <= exp < exp_to_next; a success report adds
\* 10 + 2 * level experience and raises the level by at most 1, exp_to_next
\* then becoming int(exp_to_next * 1.5); a failure report leaves level, exp and
\* exp_to_next as they were.
C39_AgentExperience ==
    [][ (ops' = ops + 1 /\ last'.op = "report" /\ last'.n \in DOMAIN army) =>
          LET s == army[last'.n]
              s1 == army'[last'.n]
              gained == 10 + 2 * s.level
          IN  /\ 0 <= s1.exp
              /\ s1.exp < s1.exp_to_next
              /\ IF last'.ok
                 THEN \/ /\ s1.level = s.level
                         /\ s1.exp = s.exp + gained
                         /\ s1.exp_to_next = s.exp_to_next
                      \/ /\ s1.level = s.level + 1
                         /\ s1.exp = s.exp + gained - s.exp_to_next
                         /\ 2 * s1.exp_to_next <= 3 * s.exp_to_next
                         /\ 2 * s1.exp_to_next > 3 * s.exp_to_next - 2
                 ELSE /\ s1.level = s.level
                      /\ s1.exp = s.exp
                      /\ s1.exp_to_next = s.exp_to_next ]_vars

\* after 20 success reports the soldier has passed the thresholds 100 and 150
\* and stands at level 3 with exp 12 of 225
C39_Witness ==
    /\ last.op = "report"
    /\ army[1].successful_executions = 20
    /\ army[1].level = 3
    /\ army[1].exp = 12
    /\ army[1].exp_to_next = 225


\* C40: zero_distraction is returned by no check_triggers call whose
\* current category is social, media or gaming, and by no call made while
\* the categories observed since the last reset_daily include one of them.
C40_DailyAbsence ==
    [][ Len(fired') = Len(fired) + 1 =>
          LET call == fired'[Len(fired')]
              forbidden == {"social", "media", "gaming"}
          IN  InSeq("zero_distraction", call.ids)
              => /\ call.args.current_category \notin forbidden
                 /\ hq.daily_categories \cap forbidden = {} ]_vars

====
